---- MODULE Spec2Model ----
(***************************************************************************)
(* A model of the SkyCheck backend: the POST /dashboard handler            *)
(* (src/src/routes/dashboard.ts, second router), its climatology builder   *)
(* and the alert engine (src/src/utils/alerts.ts).                         *)
(*                                                                         *)
(* Numbers.  A JavaScript number is an integer count of 1/Scale units      *)
(* (Scale = 20), so that the halves a median produces and the tenths a     *)
(* percentile interpolates stay exact; NaN (and undefined, where the code  *)
(* only asks Number.isFinite) is the sentinel NaN.  Floating-point         *)
(* rounding error is not modelled.                                         *)
(*                                                                         *)
(* Time.  An instant is a count of half-hour ticks since a UTC midnight;   *)
(* a 'HH:mm' label is the tick of the local day (0..47).  A time zone is a *)
(* fixed offset in ticks.                                                  *)
(***************************************************************************)
EXTENDS Integers, Sequences, FiniteSets, TLC

VARIABLES
    now,            \* Date.now() as read by the request
    pc,             \* where the request's handler is suspended
    req,            \* the request body
    targetUTC,      \* the resolved target instant
    horizonTicks,   \* horizonDays * TicksPerDay
    instantParams,  \* the parameter list of the first instant query
    queries,        \* every provider query issued so far, in order
    outcomes,       \* how the queries settled, in order: "ok" or the error message
    instant,        \* the instant reply kept by the handler
    yearIdx,        \* buildClimatology: the loop variable y
    allByParam,     \* buildClimatology: the pool of fetched points
    response,       \* what res.json / res.status(..).json sent
    err,            \* what next(e) received
    moduleParams,   \* the module-level array INSTANT_PARAMS_BASE, shared by all requests
    parked,         \* the locals of a second request, suspended at an await
    fn,             \* alert engine harness: the function applied
    opts,           \* alert engine harness: its argument
    alerts,         \* alert engine harness: the candidate list before dedup
    ret             \* alert engine harness: the returned list

vars == <<now, pc, req, targetUTC, horizonTicks, instantParams, queries, outcomes,
          instant, yearIdx, allByParam, response, err, moduleParams, parked,
          fn, opts, alerts, ret>>

handlerVars == <<now, pc, req, targetUTC, horizonTicks, instantParams, queries, outcomes,
                 instant, yearIdx, allByParam, response, err, moduleParams, parked>>

engineVars == <<fn, opts, alerts, ret>>

(***************************************************************************)
(* Bounds of the model.                                                    *)
(***************************************************************************)
MaxHours == 3       \* longest hourly sequence handed to the alert engine

MaxPts == 3         \* most points per parameter in a reply to the local-day query

(***************************************************************************)
(* Numbers.                                                                *)
(***************************************************************************)
Scale == 2 * 10

TicksPerDay == 48                   \* MS_PER_DAY, in half-hour ticks

TicksPerHour == TicksPerDay \div 24

NaN == -9999999

Null == "null"

N(k) == k * Scale

IsFinite(x) == x # NaN

\* x >= y on JavaScript numbers: false when either side is NaN
Ge(x, y) == x # NaN /\ y # NaN /\ x >= y

Le(x, y) == x # NaN /\ y # NaN /\ x <= y

Lt(x, y) == x # NaN /\ y # NaN /\ x < y

Gt(x, y) == x # NaN /\ y # NaN /\ x > y

\* Math.round: the nearest integer, halves towards +Infinity (as a plain integer)
MathRound(x) == (2 * x + Scale) \div (2 * Scale)

\* Number.prototype.toFixed(0): the nearest integer, halves away from zero
ToFixed0(x) == IF x >= 0 THEN (2 * x + Scale) \div (2 * Scale)
               ELSE 0 - ((2 * (0 - x) + Scale) \div (2 * Scale))

SeqMap(Op(_), s) == [i \in DOMAIN s |-> Op(s[i])]

RECURSIVE Concat(_)
Concat(ss) == IF ss = <<>> THEN <<>> ELSE Head(ss) \o Concat(Tail(ss))

(***************************************************************************)
(* src/src/utils/alerts.ts, first module: computeAlerts.                   *)
(***************************************************************************)
TH_UV_INFO == 6
TH_UV_WARN == 8
TH_HEAT_WARN == 35
TH_HEAT_DANGER == 40
TH_COLD_WARN == 5
TH_COLD_DANGER == -5
TH_RAIN_PROB_WARN == 60
TH_RAIN_PROB_DANGER == 80
TH_RAIN_RATE_WARN == 3
TH_RAIN_RATE_DANGER == 7
TH_GUST_WARN == 60
TH_GUST_DANGER == 80
TH_PM25_WARN == 3
TH_PM25_DANGER == 4

src == "Meteomatics"

Alert(level, tpl, arg) == [level |-> level, source |-> src, text |-> <<tpl, arg>>]

\* a variant of the scan that closes a run only at an hour failing the
\* predicate, never at the end of the sequence
RECURSIVE WindowScanNoTail(_, _, _, _)
WindowScanNoTail(ok, i, start, out) ==
    IF i > Len(ok) THEN out
    ELSE LET start1 == IF ok[i] /\ start = 0 THEN i ELSE start
         IN  IF ~ok[i] /\ start1 # 0
             THEN WindowScanNoTail(ok, i + 1, 0, Append(out, [a |-> start1, b |-> i - 1]))
             ELSE WindowScanNoTail(ok, i + 1, start1, out)

\* the forEach of windows(): ok[i] is pred(hours[i]); indices are 1-based here,
\* so start = 0 stands for the code's start = -1
RECURSIVE WindowScan(_, _, _, _)
WindowScan(ok, i, start, out) ==
    IF i > Len(ok) THEN out
    ELSE LET start1 == IF ok[i] /\ start = 0 THEN i ELSE start
         IN  IF (~ok[i] \/ i = Len(ok)) /\ start1 # 0
             THEN WindowScan(ok, i + 1, 0,
                             Append(out, [a |-> start1, b |-> IF ok[i] THEN i ELSE i - 1]))
             ELSE WindowScan(ok, i + 1, start1, out)

windows(hours, pred(_)) == WindowScan([i \in DOMAIN hours |-> pred(hours[i])], 1, 0, <<>>)

\* join(): one label when both ends carry the same label, else "s-e"
join(hs, a, b) ==
    LET s == hs[a].timeLocal
        e == hs[b].timeLocal
    IN  IF s = e THEN <<s>> ELSE <<s, e>>

\* uvDanger.map(w => join(hourly, w.a, w.b)).join(', ')
Ranges(hs, ws) == [k \in DOMAIN ws |-> join(hs, ws[k].a, ws[k].b)]

UvHigh(h) == Ge(h.uv_idx, N(TH_UV_WARN))

UvInfo(h) == Ge(h.uv_idx, N(TH_UV_INFO))

\* a variant that writes one alert per run instead of one alert listing the runs
UvRulePerWindow(hourly) ==
    LET uvDanger == windows(hourly, UvHigh)
        uvInfo == windows(hourly, UvInfo)
    IN  IF Len(uvDanger) > 0
        THEN [k \in 1..Len(uvDanger) |->
                 Alert("warning", "Very high UV (8+)", Ranges(hourly, <<uvDanger[k]>>))]
        ELSE IF Len(uvInfo) > 0
             THEN <<Alert("info", "High UV (6+)", Ranges(hourly, uvInfo))>>
             ELSE <<>>

UvRule(hourly) ==
    LET uvDanger == windows(hourly, UvHigh)
        uvInfo == windows(hourly, UvInfo)
    IN  IF Len(uvDanger) > 0
        THEN <<Alert("warning", "Very high UV (8+)", Ranges(hourly, uvDanger))>>
        ELSE IF Len(uvInfo) > 0
             THEN <<Alert("info", "High UV (6+)", Ranges(hourly, uvInfo))>>
             ELSE <<>>

HeatRule(hiC) ==
    IF ~IsFinite(hiC) THEN <<>>
    ELSE IF hiC >= N(TH_HEAT_DANGER)
         THEN <<Alert("danger", "Extreme heat today (High ~", MathRound(hiC))>>
         ELSE IF hiC >= N(TH_HEAT_WARN)
              THEN <<Alert("warning", "Very hot today (High ~", MathRound(hiC))>>
              ELSE <<>>

ColdRule(loC) ==
    IF ~IsFinite(loC) THEN <<>>
    ELSE IF loC <= N(TH_COLD_DANGER)
         THEN <<Alert("danger", "Severe cold (Low ~", MathRound(loC))>>
         ELSE IF loC <= N(TH_COLD_WARN)
              THEN <<Alert("warning", "Cold conditions (Low ~", MathRound(loC))>>
              ELSE <<>>

RainDangerHour(h) ==
    Ge(h.probPrecip1h_pct, N(TH_RAIN_PROB_DANGER)) \/ Ge(h.precip1h_mm, N(TH_RAIN_RATE_DANGER))

RainWarnHour(h) ==
    Ge(h.probPrecip1h_pct, N(TH_RAIN_PROB_WARN)) \/ Ge(h.precip1h_mm, N(TH_RAIN_RATE_WARN))

\* a variant whose warning-tier scan is not suppressed by the danger tier
RainRuleBothTiers(hourly) ==
    LET rainDanger == windows(hourly, RainDangerHour)
        rainWarn == windows(hourly, RainWarnHour)
    IN  (IF Len(rainDanger) > 0
         THEN <<Alert("danger", "Heavy rain risk (80%+ or 7 mm/h+)", Ranges(hourly, rainDanger))>>
         ELSE <<>>)
        \o (IF Len(rainWarn) > 0
            THEN <<Alert("warning", "Rain likely (60%+)", Ranges(hourly, rainWarn))>>
            ELSE <<>>)

RainRule(hourly) ==
    LET rainDanger == windows(hourly, RainDangerHour)
        rainWarn == windows(hourly, RainWarnHour)
    IN  IF Len(rainDanger) > 0
        THEN <<Alert("danger", "Heavy rain risk (80%+ or 7 mm/h+)", Ranges(hourly, rainDanger))>>
        ELSE IF Len(rainWarn) > 0
             THEN <<Alert("warning", "Rain likely (60%+)", Ranges(hourly, rainWarn))>>
             ELSE <<>>

GustRule(gust_kmh) ==
    IF ~IsFinite(gust_kmh) THEN <<>>
    ELSE IF gust_kmh >= N(TH_GUST_DANGER)
         THEN <<Alert("danger", "Damaging wind gusts", gust_kmh)>>
         ELSE IF gust_kmh >= N(TH_GUST_WARN)
              THEN <<Alert("warning", "Strong wind gusts", gust_kmh)>>
              ELSE <<>>

AqRule(aqi_pm25_idx) ==
    IF ~IsFinite(aqi_pm25_idx) THEN <<>>
    ELSE IF aqi_pm25_idx >= N(TH_PM25_DANGER)
         THEN <<Alert("danger", "Air quality: Very Poor (PM2.5 index", ToFixed0(aqi_pm25_idx))>>
         ELSE IF aqi_pm25_idx >= N(TH_PM25_WARN)
              THEN <<Alert("warning", "Air quality: Poor (PM2.5 index", ToFixed0(aqi_pm25_idx))>>
              ELSE <<>>

\* the key of the dedup filter: `${a.level}|${a.text}`
DedupKey(a) == <<a.level, a.text>>

\* alerts.filter(a => { if (seen.has(k)) return false; seen.add(k); return true; })
RECURSIVE DedupScan(_, _, _)
DedupScan(as, seen, out) ==
    IF as = <<>> THEN out
    ELSE LET k == DedupKey(Head(as))
         IN  IF k \in seen
             THEN DedupScan(Tail(as), seen, out)
             ELSE DedupScan(Tail(as), seen \cup {k}, Append(out, Head(as)))

\* a variant without the dedup filter
NoDedup(as) == as

Dedup(as) == DedupScan(as, {}, <<>>)

\* a variant that evaluates the air-quality rule first
ComputeCandidatesAqFirst(o) ==
    AqRule(o.aqi_pm25_idx) \o UvRule(o.hourly) \o HeatRule(o.hiC) \o ColdRule(o.loC)
        \o RainRule(o.hourly) \o GustRule(o.gust_kmh)

\* the alerts array of computeAlerts just before the dedup filter
ComputeCandidates(o) ==
    UvRule(o.hourly) \o HeatRule(o.hiC) \o ColdRule(o.loC) \o RainRule(o.hourly)
        \o GustRule(o.gust_kmh) \o AqRule(o.aqi_pm25_idx)

computeAlerts(o) == Dedup(ComputeCandidates(o))

(***************************************************************************)
(* src/src/utils/alerts.ts, second module: buildAlerts.                    *)
(***************************************************************************)
TH2_UV_WARNING == 8
TH2_UV_INFO == 6
TH2_HEAT_WARN == 35
TH2_HEAT_DANGER == 40
TH2_COLD_WARN == 5
TH2_COLD_DANGER == -5
TH2_WIND_GUST_WARN == 60
TH2_WIND_GUST_DANGER == 80
TH2_RAIN_PROB_WARN == 60
TH2_RAIN_PROB_DANGER == 80
TH2_RAIN_RATE_WARN_MM == 3
TH2_RAIN_RATE_DANGER_MM == 7
TH2_HUMIDEX_WARN == 35
TH2_HUMIDEX_DANGER == 40
TH2_PM25_IDX_WARN == 3
TH2_PM25_IDX_DANGER == 4

\* The Magnus / dew-point formula of humidexApprox uses Math.log and Math.exp;
\* its value is tabulated (to the nearest 1/Scale) for the temperature and
\* humidity values the model draws: e.g. humidexApprox(28, 70) = 37.326.
HumidexFormula(tC, rhPct) ==
    CASE tC = N(20) /\ rhPct = N(30) -> 367
      [] tC = N(20) /\ rhPct = N(70) -> 472
      [] tC = N(28) /\ rhPct = N(30) -> 575
      [] tC = N(28) /\ rhPct = N(70) -> 747
      [] tC = N(36) /\ rhPct = N(30) -> 808
      [] tC = N(36) /\ rhPct = N(70) -> 1082

humidexApprox(tC, rhPct) ==
    IF ~IsFinite(tC) \/ ~IsFinite(rhPct) THEN tC ELSE HumidexFormula(tC, rhPct)

\* findConsecutiveWindows: the same scan, with fields startIdx / endIdx
findConsecutiveWindows(hours, predicate(_)) ==
    LET ws == WindowScan([i \in DOMAIN hours |-> predicate(hours[i])], 1, 0, <<>>)
    IN  [k \in DOMAIN ws |-> [startIdx |-> ws[k].a, endIdx |-> ws[k].b]]

joinRange(hours, a, b) ==
    LET s == hours[a].timeLocal
        e == hours[b].timeLocal
    IN  IF s = e THEN <<s>> ELSE <<s, e>>

Ranges2(hs, ws) == [k \in DOMAIN ws |-> joinRange(hs, ws[k].startIdx, ws[k].endIdx)]

Uv2High(h) == Ge(h.uv_idx, N(TH2_UV_WARNING))

Uv2Info(h) == Ge(h.uv_idx, N(TH2_UV_INFO))

UvRule2(hourly) ==
    LET uvDangerWindows == findConsecutiveWindows(hourly, Uv2High)
        uvInfoWindows == findConsecutiveWindows(hourly, Uv2Info)
    IN  IF Len(uvDangerWindows) > 0
        THEN <<Alert("warning", "Very high UV (8+) around", Ranges2(hourly, uvDangerWindows))>>
        ELSE IF Len(uvInfoWindows) > 0
             THEN <<Alert("info", "High UV (6+) around", Ranges2(hourly, uvInfoWindows))>>
             ELSE <<>>

HeatRule2(hiC) ==
    IF ~IsFinite(hiC) THEN <<>>
    ELSE IF hiC >= N(TH2_HEAT_DANGER)
         THEN <<Alert("danger", "Extreme heat today (High ~", MathRound(hiC))>>
         ELSE IF hiC >= N(TH2_HEAT_WARN)
              THEN <<Alert("warning", "Very hot today (High ~", MathRound(hiC))>>
              ELSE <<>>

ColdRule2(loC) ==
    IF ~IsFinite(loC) THEN <<>>
    ELSE IF loC <= N(TH2_COLD_DANGER)
         THEN <<Alert("danger", "Severe cold tonight (Low ~", MathRound(loC))>>
         ELSE IF loC <= N(TH2_COLD_WARN)
              THEN <<Alert("warning", "Cold conditions (Low ~", MathRound(loC))>>
              ELSE <<>>

Rain2DangerHour(h) ==
    Ge(h.probPrecip1h_pct, N(TH2_RAIN_PROB_DANGER)) \/ Ge(h.precip1h_mm, N(TH2_RAIN_RATE_DANGER_MM))

Rain2WarnHour(h) ==
    Ge(h.probPrecip1h_pct, N(TH2_RAIN_PROB_WARN)) \/ Ge(h.precip1h_mm, N(TH2_RAIN_RATE_WARN_MM))

RainRule2(hourly) ==
    LET rainDanger == findConsecutiveWindows(hourly, Rain2DangerHour)
        rainWarn == findConsecutiveWindows(hourly, Rain2WarnHour)
    IN  IF Len(rainDanger) > 0
        THEN <<Alert("danger", "Heavy rain risk (80%+ or 7mm/h+) around", Ranges2(hourly, rainDanger))>>
        ELSE IF Len(rainWarn) > 0
             THEN <<Alert("warning", "Rain likely (60%+) around", Ranges2(hourly, rainWarn))>>
             ELSE <<>>

\* no Number.isFinite guard here: NaN >= 80 is false
GustRule2(gust_kmh) ==
    IF Ge(gust_kmh, N(TH2_WIND_GUST_DANGER))
    THEN <<Alert("danger", "Damaging wind gusts", gust_kmh)>>
    ELSE IF Ge(gust_kmh, N(TH2_WIND_GUST_WARN))
         THEN <<Alert("warning", "Strong wind gusts", gust_kmh)>>
         ELSE <<>>

HumidexRule(tempNowC, humidity_pct) ==
    LET humidex == humidexApprox(tempNowC, humidity_pct)
    IN  IF ~IsFinite(humidex) THEN <<>>
        ELSE IF humidex >= N(TH2_HUMIDEX_DANGER)
             THEN <<Alert("danger", "Dangerous heat stress (Humidex ~", MathRound(humidex))>>
             ELSE IF humidex >= N(TH2_HUMIDEX_WARN)
                  THEN <<Alert("warning", "Heat stress (Humidex ~", MathRound(humidex))>>
                  ELSE <<>>

AqRule2(pm25Index) ==
    IF ~IsFinite(pm25Index) THEN <<>>
    ELSE IF pm25Index >= N(TH2_PM25_IDX_DANGER)
         THEN <<Alert("danger", "Air quality: Very Poor (PM2.5 index", ToFixed0(pm25Index))>>
         ELSE IF pm25Index >= N(TH2_PM25_IDX_WARN)
              THEN <<Alert("warning", "Air quality: Poor (PM2.5 index", ToFixed0(pm25Index))>>
              ELSE <<>>

\* rules 1..6 of buildAlerts, in the order they push
BuildRules(o) ==
    UvRule2(o.hourly) \o HeatRule2(o.hiC) \o ColdRule2(o.loC) \o RainRule2(o.hourly)
        \o GustRule2(o.gust_kmh) \o HumidexRule(o.tempNowC, o.humidity_pct)
        \o AqRule2(o.pm25Index)

\* rule 7: the entry pushed when nothing else fired; localLabel is the local
\* calendar date of the target ("MMM d, yyyy"), here the local day number
NoAlertsFallback(as, localLabel) ==
    IF Len(as) = 0
    THEN <<Alert("info", "No significant weather alerts for", localLabel)>>
    ELSE as

\* the alerts array of buildAlerts just before the dedup filter
BuildCandidates(o) == NoAlertsFallback(BuildRules(o), o.localLabel)

buildAlerts(o) == Dedup(BuildCandidates(o))

\* the rule an alert text belongs to
RuleOf(a) ==
    LET t == a.text[1]
    IN  CASE t \in {"Very high UV (8+)", "High UV (6+)",
                    "Very high UV (8+) around", "High UV (6+) around"} -> "uv"
          [] t \in {"Extreme heat today (High ~", "Very hot today (High ~"} -> "heat"
          [] t \in {"Severe cold (Low ~", "Severe cold tonight (Low ~",
                    "Cold conditions (Low ~"} -> "cold"
          [] t \in {"Heavy rain risk (80%+ or 7 mm/h+)", "Rain likely (60%+)",
                    "Heavy rain risk (80%+ or 7mm/h+) around",
                    "Rain likely (60%+) around"} -> "rain"
          [] t \in {"Damaging wind gusts", "Strong wind gusts"} -> "gust"
          [] t \in {"Dangerous heat stress (Humidex ~", "Heat stress (Humidex ~"} -> "humidex"
          [] t \in {"Air quality: Very Poor (PM2.5 index",
                    "Air quality: Poor (PM2.5 index"} -> "aq"
          [] t = "No significant weather alerts for" -> "none"

\* the alerts of one rule, in order
OfRule(as, r) == SelectSeq(as, LAMBDA a : RuleOf(a) = r)

(***************************************************************************)
(* The alert engine on its own: computeAlerts and buildAlerts applied to   *)
(* inputs drawn from bounded sets.                                         *)
(***************************************************************************)
\* one hour's (uv, probability, amount): quiet; high and very high UV; rain
\* likely by probability and by amount; heavy rain by amount and by probability
HourVals ==
    { <<N(2), N(0), N(0)>>, <<N(6), N(0), N(0)>>, <<N(9), N(0), N(0)>>,
      <<N(2), N(60), N(0)>>, <<N(6), N(0), N(3)>>, <<N(2), N(0), N(7)>>,
      <<N(9), N(80), N(3)>> }

\* the label of the first hour: 22:00, so that a long day runs past midnight
LabelStart == TicksPerDay - 2 * TicksPerHour

\* an hourly sequence of n hours whose labels advance by one hour
HourSeqs(n) ==
    { [i \in 1..n |-> [timeLocal |-> (LabelStart + TicksPerHour * (i - 1)) % TicksPerDay,
                       tempC |-> N(20),
                       probPrecip1h_pct |-> v[i][2],
                       precip1h_mm |-> v[i][3],
                       uv_idx |-> v[i][1]]] :
        v \in [1..n -> HourVals] }

EngineHourly == UNION { HourSeqs(n) : n \in 0..MaxHours }

HiVals == {NaN, N(20), N(37), N(41)}

LoVals == {NaN, N(10), N(3), N(-6)}

GustVals == {NaN, N(72), N(90)}

AqVals == {NaN, N(3), N(4)}

TempNowVals == {NaN, N(20), N(28), N(36)}

HumidityVals == {NaN, N(30), N(70)}

NoOpts == [hourly |-> <<>>]

MaxCands == 3       \* longest alerts array handed to the dedup filter alone

\* alerts that agree in level, in text, in both or in neither
CandAlerts ==
    { Alert("warning", "Very hot today (High ~", 37),
      Alert("danger", "Extreme heat today (High ~", 41),
      Alert("warning", "Strong wind gusts", N(72)),
      Alert("danger", "Strong wind gusts", N(72)) }

CandLists == UNION { [1..n -> CandAlerts] : n \in 0..MaxCands }

EngineInit ==
    /\ fn = "none"
    /\ opts = NoOpts
    /\ alerts = <<>>
    /\ ret = <<>>

\* a call computeAlerts(opts)
CallComputeAlerts ==
    /\ fn = "none"
    /\ pc = "idle"
    /\ \E hiC \in HiVals, loC \in LoVals, gust_kmh \in GustVals, aqi \in AqVals :
          LET o == [hiC |-> hiC, loC |-> loC, uv |-> NaN, gust_kmh |-> gust_kmh,
                    aqi_pm25_idx |-> aqi, hourly |-> opts.hourly]
          IN  /\ opts' = o
              /\ alerts' = ComputeCandidates(o)
              /\ ret' = computeAlerts(o)
    /\ fn' = "computeAlerts"
    /\ UNCHANGED handlerVars

\* the dedup filter that ends both functions, applied to an alerts array that
\* may repeat a (level, text) pair
CallDedup ==
    /\ fn = "none"
    /\ pc = "idle"
    /\ opts.hourly = <<>>
    /\ \E as \in CandLists :
          /\ alerts' = as
          /\ ret' = Dedup(as)
    /\ fn' = "dedup"
    /\ UNCHANGED <<opts, handlerVars>>

\* a call buildAlerts(opts)
CallBuildAlerts ==
    /\ fn = "none"
    /\ pc = "idle"
    /\ \E day \in {"mild", "hot", "cold"}, gust_kmh \in {NaN, N(90)},
          tempNowC \in TempNowVals, humidity_pct \in HumidityVals,
          pm25Index \in {NaN, N(4)} :
          LET o == [hiC |-> IF day = "hot" THEN N(41) ELSE N(20),
                    loC |-> IF day = "cold" THEN N(3) ELSE N(10),
                    tempNowC |-> tempNowC, humidity_pct |-> humidity_pct,
                    gust_kmh |-> gust_kmh, pm25Index |-> pm25Index,
                    localLabel |-> 7, hourly |-> opts.hourly]
          IN  /\ opts' = o
              /\ alerts' = BuildCandidates(o)
              /\ ret' = buildAlerts(o)
    /\ fn' = "buildAlerts"
    /\ UNCHANGED handlerVars

(***************************************************************************)
(* src/src/routes/dashboard.ts: configuration and helpers.                 *)
(***************************************************************************)
MAX_FORECAST_DAYS == 14

AQ_MAX_FORECAST_DAYS == 5

DEFAULT_TZ == "America/Mazatlan"

SERIES_PARAMS == <<"t_2m:C", "precip_1h:mm", "prob_precip_1h:p", "uv:idx">>

INSTANT_PARAMS_BASE ==
    <<"wind_speed_10m:ms", "wind_dir_10m:d", "wind_gusts_10m_1h:ms",
      "relative_humidity_2m:p", "precip_24h:mm">>

AQ_PARAM == "air_quality_pm2p5:idx"

\* fixed-offset zones: the offset of local time from UTC, in ticks
Zones == {"UTC", DEFAULT_TZ}

\* a zone name the time-zone database does not know
UNKNOWN_TZ == "Mars/Phobos"

\* date-fns-tz resolves the zone name (an Invalid Date comes back otherwise)
ValidZone(tz) == tz \in Zones

TzOffset(tz) == IF tz = "UTC" THEN 0 ELSE 0 - 7 * TicksPerHour

\* the zone of the server process (new Date() / new Date(naive) read it)
ServerOffset == TzOffset("UTC")

\* hasOffset(iso): the string ends in Z or +hh:mm / -hh:mm
hasOffset(iso) == iso.kind \in {"offset", "badOffset"}

\* kmh(ms) = Math.round(ms * 3.6)
kmh(ms) == IF ms = NaN THEN NaN ELSE N((36 * ms + 100) \div 200)

uvText(uv) ==
    IF Lt(uv, N(3)) THEN "Low"
    ELSE IF Lt(uv, N(6)) THEN "Moderate"
    ELSE IF Lt(uv, N(8)) THEN "High"
    ELSE IF Lt(uv, N(11)) THEN "Very High"
    ELSE "Extreme"

Clamp05(k) == IF k < 0 THEN 0 ELSE IF k > 5 THEN 5 ELSE k

overallAQI(idx) ==
    <<"Great", "Good", "Moderate", "Poor", "Very Poor", "Extremely Poor">>[Clamp05(MathRound(idx)) + 1]

\* formatInTimeZone(date, tz, 'HH:mm'): the tick of the local day
TimeLabel(date, tz) == (date + TzOffset(tz)) % TicksPerDay

\* formatInTimeZone(date, tz, 'MMM d, yyyy'): the local calendar day
DateLabel(date, tz) == (date + TzOffset(tz)) \div TicksPerDay

\* new Date(pt.date).getUTCHours()
UTCHours(date) == (date % TicksPerDay) \div TicksPerHour

RECURSIVE InsertSorted(_, _)
InsertSorted(x, s) ==
    IF s = <<>> THEN <<x>>
    ELSE IF x <= Head(s) THEN <<x>> \o s
    ELSE <<Head(s)>> \o InsertSorted(x, Tail(s))

RECURSIVE SortAsc(_)
SortAsc(s) == IF s = <<>> THEN <<>> ELSE InsertSorted(Head(s), SortAsc(Tail(s)))

\* nums.filter(n => Number.isFinite(n)).sort((a,b) => a-b)
FiniteSorted(nums) == SortAsc(SelectSeq(nums, IsFinite))

median(nums) ==
    LET arr == FiniteSorted(nums)
        n == Len(arr)
        mid == n \div 2
    IN  IF n = 0 THEN NaN
        ELSE IF n % 2 = 1 THEN arr[mid + 1]
        ELSE (arr[mid] + arr[mid + 1]) \div 2

\* percentile(nums, p) with p = p10 / 10; idx = (n - 1) * p, interpolated
\* a variant that reads the quantile from the wrong end
percentileFlipped(nums, p10) ==
    LET arr == FiniteSorted(nums)
        idx10 == (Len(arr) - 1) * (10 - p10)
        lo == idx10 \div 10
        hi == (idx10 + 9) \div 10
    IN  IF Len(arr) = 0 THEN NaN
        ELSE IF lo = hi THEN arr[lo + 1]
        ELSE arr[lo + 1] + ((arr[hi + 1] - arr[lo + 1]) * (idx10 - 10 * lo)) \div 10

percentile(nums, p10) ==
    LET arr == FiniteSorted(nums)
        idx10 == (Len(arr) - 1) * p10
        lo == idx10 \div 10
        hi == (idx10 + 9) \div 10
    IN  IF Len(arr) = 0 THEN NaN
        ELSE IF lo = hi THEN arr[lo + 1]
        ELSE arr[lo + 1] + ((arr[hi + 1] - arr[lo + 1]) * (idx10 - 10 * lo)) \div 10

\* groupByHour(points)[h] ?? []
Bucket(points, h) ==
    LET sel == SelectSeq(points, LAMBDA pt : UTCHours(pt.date) = h)
    IN  [i \in DOMAIN sel |-> sel[i].value]

Values(points) == [i \in DOMAIN points |-> points[i].value]

RECURSIVE SeqMax(_)
SeqMax(s) ==
    IF Len(s) = 1 THEN s[1]
    ELSE LET m == SeqMax(Tail(s))
         IN  IF s[1] = NaN \/ m = NaN THEN NaN ELSE IF s[1] >= m THEN s[1] ELSE m

RECURSIVE SeqMin(_)
SeqMin(s) ==
    IF Len(s) = 1 THEN s[1]
    ELSE LET m == SeqMin(Tail(s))
         IN  IF s[1] = NaN \/ m = NaN THEN NaN ELSE IF s[1] <= m THEN s[1] ELSE m

CountIf(s, P(_)) == Len(SelectSeq(s, P))

(***************************************************************************)
(* Provider data: MeteomaticsJSON.data is a sequence of                    *)
(* [parameter, dates], dates standing for coordinates[0].dates, a sequence *)
(* of [date, value].                                                       *)
(***************************************************************************)
\* the series of the last entry named p, or the empty series (?? [])
SeriesOf(data, p) ==
    LET hits == SelectSeq(data, LAMBDA d : d.parameter = p)
    IN  IF Len(hits) = 0 THEN <<>> ELSE hits[Len(hits)].dates

\* arr?.[i]?.value ?? dflt  (i is 1-based here)
ValueOr(arr, i, dflt) == IF i \in DOMAIN arr THEN arr[i].value ELSE dflt

\* pick(p): the first value of the first entry named p, NaN when there is none
pick(json, p) ==
    LET hits == SelectSeq(json.data, LAMBDA d : d.parameter = p)
    IN  IF Len(hits) = 0 THEN NaN
        ELSE IF Len(hits[1].dates) = 0 THEN NaN ELSE hits[1].dates[1].value

Abs(x) == IF x < 0 THEN 0 - x ELSE x

\* the "closest slot" loops: keep the first row of least |date - target|;
\* best = -1 stands for Infinity
RECURSIVE NearestScan(_, _, _, _)
NearestScan(arr, target, best, cur) ==
    IF arr = <<>> THEN cur
    ELSE LET diff == Abs(Head(arr).date - target)
         IN  IF best = -1 \/ diff < best
             THEN NearestScan(Tail(arr), target, diff, Head(arr).value)
             ELSE NearestScan(Tail(arr), target, best, cur)

Nearest(arr, target, init) == NearestScan(arr, target, -1, init)

\* Math.round on a model number, NaN kept
RoundNum(x) == IF x = NaN THEN NaN ELSE N(MathRound(x))

(***************************************************************************)
(* buildClimatology, after its fetch loop: from the pool to panel + hourly *)
(***************************************************************************)
CLIM_PARAMS ==
    <<"t_2m:C", "precip_1h:mm", "relative_humidity_2m:p", "wind_speed_10m:ms", "uv:idx">>

yearsBack == 5

halfWindowDays == 7

DaysPerYear == 365

HoursPerDay == 24

EmptyPool == [p \in {CLIM_PARAMS[i] : i \in DOMAIN CLIM_PARAMS} |-> <<>>]

\* the rain probability of a bucket: Math.round(100 * share of values > 0.1)
ProbRainPct(pr_arr) ==
    IF Len(pr_arr) = 0 THEN N(0)
    ELSE N((200 * CountIf(pr_arr, LAMBDA x : Gt(x, Scale \div 10)) + Len(pr_arr))
               \div (2 * Len(pr_arr)))

ClimHour(pool, tgt, tz, h) ==
    LET dLocal == (tgt \div TicksPerDay) * TicksPerDay + h * TicksPerHour
        t_med == median(Bucket(pool["t_2m:C"], h))
        pr_arr == Bucket(pool["precip_1h:mm"], h)
        precip_med == median(pr_arr)
        uv_med == median(Bucket(pool["uv:idx"], h))
    IN  [timeLocal |-> TimeLabel(dLocal, tz),
         tempC |-> t_med,
         probPrecip1h_pct |-> ProbRainPct(pr_arr),
         precip1h_mm |-> IF IsFinite(precip_med) THEN precip_med ELSE N(0),
         uv_idx |-> IF IsFinite(uv_med) THEN uv_med ELSE N(0)]

\* a variant whose output loop stops one hour short (h < 23)
ClimHourlyShort(pool, tgt, tz) ==
    [k \in 1..(HoursPerDay - 1) |-> ClimHour(pool, tgt, tz, k - 1)]

ClimHourly(pool, tgt, tz) ==
    [k \in 1..HoursPerDay |-> ClimHour(pool, tgt, tz, k - 1)]

\* +(count / total).toFixed(2), in hundredths
Ratio(count, total) == (200 * count + total) \div (2 * total)

\* panel.veryFlag of buildClimatology
ClimFlags(hourlyOut) ==
    LET tempsForHiLo == SelectSeq([k \in DOMAIN hourlyOut |-> hourlyOut[k].tempC], IsFinite)
        n == IF Len(tempsForHiLo) = 0 THEN 1 ELSE Len(tempsForHiLo)
    IN  [veryWet |-> Ratio(CountIf(hourlyOut, LAMBDA x : Ge(x.probPrecip1h_pct, N(60))), HoursPerDay),
         veryHot |-> Ratio(CountIf(tempsForHiLo, LAMBDA x : Ge(x, N(35))), n),
         veryCold |-> Ratio(CountIf(tempsForHiLo, LAMBDA x : Le(x, N(5))), n),
         veryHumid |-> Ratio(0, HoursPerDay),
         extremeRain |-> Ratio(CountIf(hourlyOut, LAMBDA x : Ge(x.precip1h_mm, N(7))), HoursPerDay),
         dangerousUV |-> Ratio(CountIf(hourlyOut, LAMBDA x : Ge(x.uv_idx, N(8))), HoursPerDay)]

ClimPanel(pool, tgt, hourlyOut) ==
    LET tempsForHiLo == SelectSeq([k \in DOMAIN hourlyOut |-> hourlyOut[k].tempC], IsFinite)
        hourUTC == UTCHours(tgt)
        slot == (IF hourUTC < 23 THEN hourUTC ELSE 23) + 1
        windMed == median(Values(pool["wind_speed_10m:ms"]))
    IN  [tempNowC |-> hourlyOut[slot].tempC,
         hiC |-> IF Len(tempsForHiLo) > 0 THEN percentile(tempsForHiLo, 9) ELSE NaN,
         loC |-> IF Len(tempsForHiLo) > 0 THEN percentile(tempsForHiLo, 1) ELSE NaN,
         precipLast1h_mm |-> hourlyOut[slot].precip1h_mm,
         precipLast24h_mm |-> NaN,
         humidity_pct |-> median(Values(pool["relative_humidity_2m:p"])),
         uv_index |-> hourlyOut[slot].uv_idx,
         uv_level |-> uvText(hourlyOut[slot].uv_idx),
         wind |-> [speed_kmh |-> kmh(IF windMed = NaN THEN N(0) ELSE windMed),
                   direction_deg |-> NaN,
                   gust_kmh |-> NaN],
         veryFlag |-> ClimFlags(hourlyOut)]

\* the window of year y: center = 12:00 UTC of the target's month/day, y years back
ClimCenter(tgt, y) ==
    ((tgt \div TicksPerDay) - y * DaysPerYear) * TicksPerDay + 12 * TicksPerHour

ClimQuery(tgt, y) ==
    [kind |-> "range",
     startISO |-> ClimCenter(tgt, y) - halfWindowDays * TicksPerDay,
     endISO |-> ClimCenter(tgt, y) + halfWindowDays * TicksPerDay,
     params |-> CLIM_PARAMS]

\* allByParam after the rows of one reply were pushed, entry by entry
RECURSIVE PushAll(_, _)
\* allByParam[d.parameter].push(...) is defined for every row of the reply
CanPushAll(pool, data) ==
    \A i \in DOMAIN data : data[i].dates = <<>> \/ data[i].parameter \in DOMAIN pool

\* the TypeError of calling push on undefined
PushTypeError ==
    [status |-> 0, message |-> "TypeError: Cannot read properties of undefined (reading 'push')"]

PushAll(pool, data) ==
    IF data = <<>> THEN pool
    ELSE PushAll([pool EXCEPT ![Head(data).parameter] = @ \o Head(data).dates], Tail(data))

\* the climatology branch of the handler after buildClimatology returned
\* a variant that feeds the engine's air-quality input from the panel
ClimAlertsWithIndex(panel, hourlyOut) ==
    computeAlerts([hiC |-> panel.hiC, loC |-> panel.loC, uv |-> panel.uv_index,
                   gust_kmh |-> panel.wind.gust_kmh,
                   hourly |-> hourlyOut, aqi_pm25_idx |-> panel.uv_index])

ClimAlerts(panel, hourlyOut) ==
    computeAlerts([hiC |-> panel.hiC, loC |-> panel.loC, uv |-> panel.uv_index,
                   gust_kmh |-> panel.wind.gust_kmh,
                   hourly |-> hourlyOut, aqi_pm25_idx |-> NaN])

ClimAirQuality == [overall_idx |-> N(0), overall_text |-> "-"]

ClimResponse(pool, target, tz) ==
    LET hourlyOut == ClimHourly(pool, target, tz)
        panel == ClimPanel(pool, target, hourlyOut)
    IN  [status |-> 200,
         mode |-> "climatology",
         panel |-> panel,
         hourly |-> hourlyOut,
         airQuality |-> ClimAirQuality,
         alerts |-> ClimAlerts(panel, hourlyOut)]

(***************************************************************************)
(* The forecast / history branch of the handler, after both replies.       *)
(***************************************************************************)
ForecastHourly(data, tz) ==
    LET t == SeriesOf(data, "t_2m:C")
    IN  [i \in DOMAIN t |->
            [timeLocal |-> TimeLabel(t[i].date, tz),
             tempC |-> t[i].value,
             probPrecip1h_pct |-> RoundNum(ValueOr(SeriesOf(data, "prob_precip_1h:p"), i, N(0))),
             precip1h_mm |-> ValueOr(SeriesOf(data, "precip_1h:mm"), i, N(0)),
             uv_idx |-> ValueOr(SeriesOf(data, "uv:idx"), i, N(0)),
             aqi_idx |-> ValueOr(SeriesOf(data, AQ_PARAM), i, NaN)]]

\* Number(row.value) || 0
OrZero(arr) == [i \in DOMAIN arr |-> [date |-> arr[i].date,
                                       value |-> IF arr[i].value = NaN THEN N(0) ELSE arr[i].value]]

\* mode: horizonDays >= -0.5 ? 'forecast' : 'history'
\* a variant that counts a target exactly half a day back as history
LiveModeStrict(hTicks) == IF 2 * hTicks > 0 - TicksPerDay THEN "forecast" ELSE "history"

LiveMode(hTicks) == IF 2 * hTicks >= 0 - TicksPerDay THEN "forecast" ELSE "history"

ForecastAirQuality(json) ==
    LET pm25Idx == pick(json, AQ_PARAM)
    IN  [overall_idx |-> pm25Idx,
         overall_text |-> IF IsFinite(pm25Idx) THEN overallAQI(pm25Idx) ELSE "N/A"]

ForecastAlerts(json, data, tgt, tz) ==
    LET temps == SeriesOf(data, "t_2m:C")
    IN  computeAlerts(
            [hiC |-> IF Len(temps) > 0 THEN SeqMax(Values(temps)) ELSE NaN,
             loC |-> IF Len(temps) > 0 THEN SeqMin(Values(temps)) ELSE NaN,
             uv |-> Nearest(SeriesOf(data, "uv:idx"), tgt, N(0)),
             gust_kmh |-> kmh(pick(json, "wind_gusts_10m_1h:ms")),
             hourly |-> ForecastHourly(data, tz),
             aqi_pm25_idx |-> Nearest(OrZero(SeriesOf(data, AQ_PARAM)), tgt, N(0))])

\* the "flags simples" of the forecast branch, in hundredths
ForecastFlags(json, data, hourlyOut) ==
    LET temps == Values(SeriesOf(data, "t_2m:C"))
        n == IF Len(temps) = 0 THEN 1 ELSE Len(temps)
        rh == pick(json, "relative_humidity_2m:p")
        probs == Values(SeriesOf(data, "prob_precip_1h:p"))
        extremeRain == Ratio(CountIf(Values(SeriesOf(data, "precip_1h:mm")), LAMBDA x : Ge(x, N(7))), n)
        wetProb == IF Len(probs) > 0 THEN Ratio(CountIf(probs, LAMBDA x : Ge(x, N(60))), n) ELSE 0
    IN  [veryWet |-> IF extremeRain >= wetProb THEN extremeRain ELSE wetProb,
         veryHot |-> Ratio(CountIf(temps, LAMBDA x : Ge(x, N(35))), n),
         veryCold |-> Ratio(CountIf(temps, LAMBDA x : Le(x, N(5))), n),
         veryHumid |-> Ratio(CountIf(hourlyOut,
                                     LAMBDA x : Ge(x.probPrecip1h_pct, N(50))
                                                \/ (Lt(x.uv_idx, N(3)) /\ Ge(rh, N(70)))), n),
         extremeRain |-> extremeRain,
         dangerousUV |-> Ratio(CountIf(Values(SeriesOf(data, "uv:idx")), LAMBDA x : Ge(x, N(8))), n)]

ForecastPanel(json, data, tgt, hourlyOut) ==
    LET temps == SeriesOf(data, "t_2m:C")
        uv == Nearest(SeriesOf(data, "uv:idx"), tgt, N(0))
    IN  [tempNowC |-> Nearest(temps, tgt, NaN),
         hiC |-> IF Len(temps) > 0 THEN SeqMax(Values(temps)) ELSE NaN,
         loC |-> IF Len(temps) > 0 THEN SeqMin(Values(temps)) ELSE NaN,
         precipLast1h_mm |-> Nearest(SeriesOf(data, "precip_1h:mm"), tgt, N(0)),
         precipLast24h_mm |-> pick(json, "precip_24h:mm"),
         humidity_pct |-> pick(json, "relative_humidity_2m:p"),
         uv_index |-> uv,
         uv_level |-> uvText(uv),
         wind |-> [speed_kmh |-> kmh(pick(json, "wind_speed_10m:ms")),
                   direction_deg |-> pick(json, "wind_dir_10m:d"),
                   gust_kmh |-> kmh(pick(json, "wind_gusts_10m_1h:ms"))],
         veryFlag |-> ForecastFlags(json, data, hourlyOut)]

ForecastResponse(json, data, tgt, tz, hTicks) ==
    [status |-> 200,
     mode |-> LiveMode(hTicks),
     panel |-> ForecastPanel(json, data, tgt, ForecastHourly(data, tz)),
     hourly |-> ForecastHourly(data, tz),
     airQuality |-> ForecastAirQuality(json),
     alerts |-> ForecastAlerts(json, data, tgt, tz)]

(***************************************************************************)
(* The request handler: router.post('/').                                  *)
(***************************************************************************)
\* targetUTC: an offset-carrying string is an instant; a naive string (or the
\* server clock, when targetISO is absent) is wall-clock time in the zone
\* a variant that reads the clock digits of every target as local time in the zone
ResolveTargetAsLocal(body, nowTick) ==
    IF body.targetISO.kind \in {"garbage", "badOffset"} THEN NaN
    ELSE IF ~ValidZone(body.timezone) THEN NaN
    ELSE (IF body.targetISO.kind = "none" THEN nowTick + ServerOffset ELSE body.targetISO.t)
             - TzOffset(body.timezone)

ResolveTarget(body, nowTick) ==
    IF body.targetISO.kind \in {"garbage", "badOffset"} THEN NaN
    ELSE IF body.targetISO.kind # "none" /\ hasOffset(body.targetISO)
    THEN body.targetISO.t
    ELSE IF ~ValidZone(body.timezone) THEN NaN
    ELSE (IF body.targetISO.kind = "naive" THEN body.targetISO.t ELSE nowTick + ServerOffset)
             - TzOffset(body.timezone)

\* Date.prototype.toISOString / format on an Invalid Date
InvalidTimeError == [status |-> 0, message |-> "RangeError: Invalid time value"]

\* instantParams: the base list, plus air quality within its horizon
\* a variant that drops air quality at exactly the limit
InstantParamsStrict(hTicks) ==
    IF hTicks < AQ_MAX_FORECAST_DAYS * TicksPerDay
    THEN Append(moduleParams, AQ_PARAM)
    ELSE moduleParams

InstantParamsFor(hTicks) ==
    IF hTicks <= AQ_MAX_FORECAST_DAYS * TicksPerDay
    THEN Append(moduleParams, AQ_PARAM)
    ELSE moduleParams

\* a variant that pushes the air-quality parameter onto the module-level array
\* itself instead of onto a copy
ModuleParamsPushed(base, hTicks) ==
    IF hTicks <= AQ_MAX_FORECAST_DAYS * TicksPerDay THEN Append(base, AQ_PARAM) ELSE base

\* the module-level array after [...INSTANT_PARAMS_BASE] and the push onto the
\* copy: as it was
ModuleParamsAfter(base, hTicks) == base

\* horizonDays > MAX_FORECAST_DAYS
BeyondForecast(hTicks) == hTicks > MAX_FORECAST_DAYS * TicksPerDay

\* /air_quality|pm2p5/i.test(p), on the parameter names the handler uses
IsAirQualityParam(p) == p = AQ_PARAM

\* a variant whose filter removes nothing
KeepAllParams(params) == params

WithoutAirQuality(params) == SelectSeq(params, LAMBDA p : ~IsAirQualityParam(p))

\* /not available at time|mix request failed/i.test(msg), on the messages drawn
RETRY_MESSAGES ==
    {"Meteomatics 404: parameter not available at time", "Meteomatics 400: Mix request failed"}

\* a variant that treats every provider error as retryable
RetryAlways(msg) == TRUE

IsRetrySignature(msg) == msg \in RETRY_MESSAGES

InstantQuery(tgt, params) == [kind |-> "instant", validISO |-> tgt, params |-> params]

\* the local day of the target in the zone: [00:00:00.000, 23:59:59.999]
\* toZonedTime(date, tz): the Date whose fields, read in the server's zone,
\* show the wall clock of the zone at date
toZonedTime(date, tz) == date + TzOffset(tz) - ServerOffset

\* fromZonedTime(date, tz): the instant at which the zone's wall clock shows
\* the fields date has in the server's zone
fromZonedTime(date, tz) == date + ServerOffset - TzOffset(tz)

\* new Date(d).setHours(0, 0, 0, 0), in the server's zone
StartOfServerDay(d) == ((d + ServerOffset) \div TicksPerDay) * TicksPerDay - ServerOffset

\* a variant that takes the day of the target in UTC
DayStartInUTC(tgt, tz) == (tgt \div TicksPerDay) * TicksPerDay

DayStartUTC(tgt, tz) == fromZonedTime(StartOfServerDay(toZonedTime(tgt, tz)), tz)

\* dayEndLocal is the same day at 23:59:59.999: endISO is written as the tick
\* of the next midnight, less endMs milliseconds
HourlyQuery(tgt, tz) ==
    [kind |-> "range",
     startISO |-> DayStartUTC(tgt, tz),
     endISO |-> DayStartUTC(tgt, tz) + TicksPerDay,
     endMs |-> 1,
     params |-> SERIES_PARAMS]

NoResponse == [status |-> 0]

NoError == [status |-> 0, message |-> ""]

NoInstant == [data |-> <<>>]

\* the Express error handler of index.ts: res.status(err.status || 500)
ErrorResponse(e) ==
    [status |-> IF e.status = 0 THEN 500 ELSE e.status, error |-> e.message]

BadRequest == [status |-> 400, error |-> "Bad Request"]

(***************************************************************************)
(* The environment of one request: the body, the clock, the provider.      *)
(***************************************************************************)
NowTick == 10 * TicksPerDay + 12 * TicksPerHour

\* target - now, in ticks, around each threshold (-0.5, 5 and 14 days)
Horizons == {0 - 48, 0 - 25, 0 - 24, 0, 28, 240, 241, 672, 673, 960}

NaiveHorizons == {0 - 24, 240, 672}

\* bodies the schema accepts (targetISO and timezone are any strings) whose
\* target string does not parse or whose zone name is unknown
MalformedBodies ==
    { [bodyOk |-> TRUE, targetISO |-> [kind |-> k, t |-> 0], timezone |-> tz] :
        k \in {"garbage", "badOffset"}, tz \in Zones }
    \cup
    { [bodyOk |-> TRUE, targetISO |-> [kind |-> "offset", t |-> NowTick + h], timezone |-> UNKNOWN_TZ] :
        h \in {0, 20 * TicksPerDay} }
    \cup
    { [bodyOk |-> TRUE, targetISO |-> [kind |-> k, t |-> NowTick], timezone |-> UNKNOWN_TZ] :
        k \in {"naive", "none"} }

Bodies ==
    { [bodyOk |-> TRUE, targetISO |-> [kind |-> "offset", t |-> NowTick + h], timezone |-> tz] :
        h \in Horizons, tz \in Zones }
    \cup
    { [bodyOk |-> TRUE, targetISO |-> [kind |-> "naive", t |-> NowTick + h], timezone |-> tz] :
        h \in NaiveHorizons, tz \in Zones }
    \cup
    { [bodyOk |-> TRUE, targetISO |-> [kind |-> "none", t |-> 0], timezone |-> tz] : tz \in Zones }
    \cup
    { [bodyOk |-> FALSE, targetISO |-> [kind |-> "none", t |-> 0], timezone |-> DEFAULT_TZ] }
    \cup
    MalformedBodies

\* what getMeteomatics throws: a provider status with its text, or (status 0,
\* no status property) an error raised before the request was sent
ProviderErrors ==
    { [status |-> 404, message |-> "Meteomatics 404: parameter not available at time"],
      [status |-> 400, message |-> "Meteomatics 400: Mix request failed"],
      [status |-> 503, message |-> "Meteomatics 503: unavailable"],
      [status |-> 0, message |-> "Faltan METEOMATICS_USERNAME/METEOMATICS_PASSWORD en .env"] }

Entry(p, dates) == [parameter |-> p, dates |-> dates]

One(date, v) == <<[date |-> date, value |-> v]>>

\* replies to an instant query: one value per requested parameter, or no data
InstantReplies(q) ==
    { [data |-> <<>>] }
    \cup
    { [data |->
          << Entry("wind_speed_10m:ms", One(q.validISO, N(3))),
             Entry("wind_dir_10m:d", One(q.validISO, N(90))),
             Entry("wind_gusts_10m_1h:ms", One(q.validISO, gust)),
             Entry("relative_humidity_2m:p", One(q.validISO, rh)),
             Entry("precip_24h:mm", One(q.validISO, N(1))) >>
          \o (IF \E i \in DOMAIN q.params : q.params[i] = AQ_PARAM
              THEN <<Entry(AQ_PARAM, One(q.validISO, aq))>> ELSE <<>>)] :
        gust \in {N(10), N(25)}, rh \in {N(50), N(80)}, aq \in {N(2), N(4)} }

HourlyKinds == {"mild", "hot", "wet"}

KindTemp(kind, i) ==
    CASE kind = "mild" -> N(20)
      [] kind = "hot" -> IF i = 1 THEN N(41) ELSE N(36)
      [] kind = "wet" -> N(3)

KindPrecip(kind) == IF kind = "wet" THEN N(8) ELSE N(0)

KindProb(kind) == CASE kind = "mild" -> N(10) [] kind = "hot" -> N(0) [] kind = "wet" -> N(90)

KindUv(kind) == CASE kind = "mild" -> N(2) [] kind = "hot" -> N(9) [] kind = "wet" -> N(0)

HourlyDates(q, n, Val(_)) ==
    [i \in 1..n |-> [date |-> q.startISO + (i - 1) * TicksPerHour, value |-> Val(i)]]

\* the shapes of a reply to the local-day query: every series of n points; a
\* shorter precipitation series and no UV series; no temperature series; a
\* precipitation series whose first point is one hour after the start
HourlyShapes == {"full", "ragged", "noTemp", "shifted"}

\* replies to the local-day query: hourly points from the start of the day
HourlyReplies(q) ==
    { (IF shape = "noTemp" THEN <<>>
       ELSE <<Entry("t_2m:C", HourlyDates(q, n, LAMBDA i : KindTemp(kind, i)))>>)
      \o << Entry("precip_1h:mm",
                  HourlyDates(IF shape = "shifted"
                              THEN [q EXCEPT !.startISO = @ + TicksPerHour] ELSE q,
                              IF shape = "ragged" /\ n > 0 THEN n - 1 ELSE n,
                              LAMBDA i : KindPrecip(kind))),
            Entry("prob_precip_1h:p", HourlyDates(q, n, LAMBDA i : KindProb(kind))) >>
      \o (IF shape = "ragged" THEN <<>>
          ELSE <<Entry("uv:idx", HourlyDates(q, n, LAMBDA i : KindUv(kind)))>>) :
        n \in 0..MaxPts, kind \in HourlyKinds, shape \in HourlyShapes }

ClimKinds == {"empty", "mild", "hot", "alien", "gaps"}

\* replies to a per-year query: nothing, an entry under a parameter name the
\* builder did not ask for, a lone temperature point whose value is not a
\* number, or points at 12:00 and 13:00 UTC of the first day of the window
ClimReplies(q) ==
    { IF kind = "empty" THEN <<>>
      ELSE IF kind = "alien" THEN <<Entry("wind_gusts_10m_1h:ms", One(q.startISO, N(12)))>>
      ELSE IF kind = "gaps" THEN <<Entry("t_2m:C", One(q.startISO, NaN))>>
      ELSE LET hot == kind = "hot"
           IN  << Entry("t_2m:C",
                        One(q.startISO, IF hot THEN N(42) ELSE N(20))
                        \o One(q.startISO + TicksPerHour, IF hot THEN N(38) ELSE N(10))),
                  Entry("precip_1h:mm", One(q.startISO, IF hot THEN N(8) ELSE N(0))),
                  Entry("relative_humidity_2m:p", One(q.startISO, IF hot THEN N(80) ELSE N(50))),
                  Entry("wind_speed_10m:ms", One(q.startISO, IF hot THEN N(10) ELSE N(3))),
                  Entry("uv:idx", One(q.startISO, IF hot THEN N(9) ELSE N(5))) >> :
        kind \in ClimKinds }

LastQuery == queries[Len(queries)]

(***************************************************************************)
(* The steps of the handler, one per stretch between two awaits.           *)
(***************************************************************************)
\* the locals of a request that has not arrived yet
IdleLocals ==
    [pc |-> "idle",
     req |-> [bodyOk |-> FALSE, targetISO |-> [kind |-> "none", t |-> 0], timezone |-> DEFAULT_TZ],
     targetUTC |-> 0, horizonTicks |-> 0, instantParams |-> <<>>, queries |-> <<>>,
     outcomes |-> <<>>, instant |-> NoInstant, yearIdx |-> 0, allByParam |-> EmptyPool,
     response |-> NoResponse, err |-> NoError]

\* the locals of the request that is running
Locals ==
    [pc |-> pc, req |-> req, targetUTC |-> targetUTC, horizonTicks |-> horizonTicks,
     instantParams |-> instantParams, queries |-> queries, outcomes |-> outcomes,
     instant |-> instant, yearIdx |-> yearIdx, allByParam |-> allByParam,
     response |-> response, err |-> err]

HandlerInit ==
    /\ now = NowTick
    /\ pc = "idle"
    /\ req = [bodyOk |-> FALSE, targetISO |-> [kind |-> "none", t |-> 0], timezone |-> DEFAULT_TZ]
    /\ targetUTC = 0
    /\ horizonTicks = 0
    /\ instantParams = <<>>
    /\ queries = <<>>
    /\ outcomes = <<>>
    /\ instant = NoInstant
    /\ yearIdx = 0
    /\ allByParam = EmptyPool
    /\ response = NoResponse
    /\ err = NoError
    /\ moduleParams = INSTANT_PARAMS_BASE
    /\ parked = IdleLocals

\* from the arrival of the request to its first await (or to the 400)
Receive ==
    /\ pc = "idle"
    /\ fn = "none"
    /\ \E body \in Bodies :
          /\ req' = body
          /\ moduleParams' = IF body.bodyOk /\ ResolveTarget(body, now) # NaN
                             THEN ModuleParamsAfter(moduleParams, ResolveTarget(body, now) - now)
                             ELSE moduleParams
          /\ IF ~body.bodyOk
             THEN /\ response' = BadRequest
                  /\ pc' = "done"
                  /\ UNCHANGED <<targetUTC, horizonTicks, instantParams, queries, yearIdx, err>>
             ELSE LET tgt == ResolveTarget(body, now)
                      h == tgt - now
                  IN  IF tgt = NaN
                      THEN \* targetUTC.toISOString() throws
                           /\ err' = InvalidTimeError
                           /\ response' = ErrorResponse(InvalidTimeError)
                           /\ pc' = "failed"
                           /\ UNCHANGED <<targetUTC, horizonTicks, instantParams, queries, yearIdx>>
                      ELSE /\ targetUTC' = tgt
                           /\ horizonTicks' = h
                           /\ instantParams' = InstantParamsFor(h)
                           /\ IF BeyondForecast(h)
                              THEN /\ pc' = "clim"
                                   /\ yearIdx' = 1
                                   /\ queries' = <<ClimQuery(tgt, 1)>>
                                   /\ UNCHANGED <<response, err>>
                              ELSE IF ~ValidZone(body.timezone)
                              THEN \* the local-day window: toISOString() throws
                                   /\ err' = InvalidTimeError
                                   /\ response' = ErrorResponse(InvalidTimeError)
                                   /\ pc' = "failed"
                                   /\ UNCHANGED <<queries, yearIdx>>
                              ELSE /\ pc' = "instant1"
                                   /\ queries' = <<InstantQuery(tgt, InstantParamsFor(h))>>
                                   /\ UNCHANGED <<response, err, yearIdx>>
    /\ UNCHANGED <<now, parked, outcomes, instant, allByParam, engineVars>>

\* next(e), and the error handler's reply
Fail(e) ==
    /\ err' = e
    /\ response' = ErrorResponse(e)
    /\ pc' = "failed"
    /\ outcomes' = Append(outcomes, e.message)
    /\ UNCHANGED <<queries, instant, yearIdx, allByParam>>

\* the instant reply is kept and the local-day query issued
KeepInstant(reply) ==
    /\ instant' = reply
    /\ queries' = Append(queries, HourlyQuery(targetUTC, req.timezone))
    /\ pc' = "hourly"
    /\ outcomes' = Append(outcomes, "ok")
    /\ UNCHANGED <<response, err, yearIdx, allByParam>>

InstantOk ==
    /\ pc = "instant1"
    /\ \E reply \in InstantReplies(LastQuery) : KeepInstant(reply)
    /\ UNCHANGED <<now, moduleParams, parked, req, targetUTC, horizonTicks, instantParams, engineVars>>

\* the catch of the first instant query
InstantFail ==
    /\ pc = "instant1"
    /\ \E e \in ProviderErrors :
          LET filtered == WithoutAirQuality(instantParams)
          IN  IF IsRetrySignature(e.message) /\ Len(filtered) # Len(instantParams)
              THEN /\ queries' = Append(queries, InstantQuery(targetUTC, filtered))
                   /\ pc' = "instant2"
                   /\ outcomes' = Append(outcomes, e.message)
                   /\ UNCHANGED <<response, err, instant, yearIdx, allByParam>>
              ELSE Fail(e)
    /\ UNCHANGED <<now, moduleParams, parked, req, targetUTC, horizonTicks, instantParams, engineVars>>

RetryOk ==
    /\ pc = "instant2"
    /\ \E reply \in InstantReplies(LastQuery) : KeepInstant(reply)
    /\ UNCHANGED <<now, moduleParams, parked, req, targetUTC, horizonTicks, instantParams, engineVars>>

\* the retry is awaited inside the catch block: its failure reaches next(e)
RetryFail ==
    /\ pc = "instant2"
    /\ \E e \in ProviderErrors : Fail(e)
    /\ UNCHANGED <<now, moduleParams, parked, req, targetUTC, horizonTicks, instantParams, engineVars>>

\* from the local-day reply to res.json
HourlyOk ==
    /\ pc = "hourly"
    /\ \E data \in HourlyReplies(LastQuery) :
          response' = ForecastResponse(instant, data, targetUTC, req.timezone, horizonTicks)
    /\ pc' = "done"
    /\ outcomes' = Append(outcomes, "ok")
    /\ UNCHANGED <<now, moduleParams, parked, req, targetUTC, horizonTicks, instantParams, queries, instant,
                   yearIdx, allByParam, err, engineVars>>

HourlyFail ==
    /\ pc = "hourly"
    /\ \E e \in ProviderErrors : Fail(e)
    /\ UNCHANGED <<now, moduleParams, parked, req, targetUTC, horizonTicks, instantParams, engineVars>>

\* a variant whose fetch loop stops one year short (y < yearsBack)
ClimOkShortLoop ==
    /\ pc = "clim"
    /\ \E data \in ClimReplies(LastQuery) :
          LET pool == PushAll(allByParam, data)
          IN  IF ~CanPushAll(allByParam, data)
              THEN /\ err' = PushTypeError
                   /\ response' = ErrorResponse(PushTypeError)
                   /\ pc' = "failed"
                   /\ outcomes' = Append(outcomes, "ok")
                   /\ UNCHANGED <<queries, yearIdx, allByParam>>
              ELSE
              /\ allByParam' = pool
              /\ outcomes' = Append(outcomes, "ok")
              /\ IF yearIdx < yearsBack - 1
                 THEN /\ yearIdx' = yearIdx + 1
                      /\ queries' = Append(queries, ClimQuery(targetUTC, yearIdx + 1))
                      /\ UNCHANGED <<pc, response, err>>
                 ELSE IF ~ValidZone(req.timezone)
                 THEN \* formatInTimeZone(dLocal, timezone, 'HH:mm') throws
                      /\ err' = InvalidTimeError
                      /\ response' = ErrorResponse(InvalidTimeError)
                      /\ pc' = "failed"
                      /\ UNCHANGED <<yearIdx, queries>>
                 ELSE /\ response' = ClimResponse(pool, targetUTC, req.timezone)
                      /\ pc' = "done"
                      /\ UNCHANGED <<yearIdx, queries, err>>
    /\ UNCHANGED <<now, moduleParams, parked, req, targetUTC, horizonTicks, instantParams, instant, engineVars>>

\* one turn of the fetch loop of buildClimatology; after the last year the
\* rest of buildClimatology and of the climatology branch, to res.json
ClimOk ==
    /\ pc = "clim"
    /\ \E data \in ClimReplies(LastQuery) :
          LET pool == PushAll(allByParam, data)
          IN  IF ~CanPushAll(allByParam, data)
              THEN /\ err' = PushTypeError
                   /\ response' = ErrorResponse(PushTypeError)
                   /\ pc' = "failed"
                   /\ outcomes' = Append(outcomes, "ok")
                   /\ UNCHANGED <<queries, yearIdx, allByParam>>
              ELSE
              /\ allByParam' = pool
              /\ outcomes' = Append(outcomes, "ok")
              /\ IF yearIdx < yearsBack
                 THEN /\ yearIdx' = yearIdx + 1
                      /\ queries' = Append(queries, ClimQuery(targetUTC, yearIdx + 1))
                      /\ UNCHANGED <<pc, response, err>>
                 ELSE IF ~ValidZone(req.timezone)
                 THEN \* formatInTimeZone(dLocal, timezone, 'HH:mm') throws
                      /\ err' = InvalidTimeError
                      /\ response' = ErrorResponse(InvalidTimeError)
                      /\ pc' = "failed"
                      /\ UNCHANGED <<yearIdx, queries>>
                 ELSE /\ response' = ClimResponse(pool, targetUTC, req.timezone)
                      /\ pc' = "done"
                      /\ UNCHANGED <<yearIdx, queries, err>>
    /\ UNCHANGED <<now, moduleParams, parked, req, targetUTC, horizonTicks, instantParams, instant, engineVars>>

ClimFail ==
    /\ pc = "clim"
    /\ \E e \in ProviderErrors : Fail(e)
    /\ UNCHANGED <<now, moduleParams, parked, req, targetUTC, horizonTicks, instantParams, engineVars>>

Init == HandlerInit /\ EngineInit

Next ==
    \/ Receive
    \/ InstantOk
    \/ InstantFail
    \/ RetryOk
    \/ RetryFail
    \/ HourlyOk
    \/ HourlyFail
    \/ ClimOk
    \/ ClimFail

Spec == Init /\ [][Next]_vars

\* the event loop resumes the other request: each handler invocation keeps its
\* locals; only the module-level state is common to both
Switch ==
    /\ fn = "none"
    /\ parked' = Locals
    /\ pc' = parked.pc
    /\ req' = parked.req
    /\ targetUTC' = parked.targetUTC
    /\ horizonTicks' = parked.horizonTicks
    /\ instantParams' = parked.instantParams
    /\ queries' = parked.queries
    /\ outcomes' = parked.outcomes
    /\ instant' = parked.instant
    /\ yearIdx' = parked.yearIdx
    /\ allByParam' = parked.allByParam
    /\ response' = parked.response
    /\ err' = parked.err
    /\ UNCHANGED <<now, moduleParams, engineVars>>

\* the requests and replies of the two-request runs
PairBodies ==
    { [bodyOk |-> TRUE, targetISO |-> [kind |-> "offset", t |-> NowTick + h], timezone |-> "UTC"] :
        h \in {0, 5 * TicksPerDay + 1, 20 * TicksPerDay} }

PairInputs ==
    /\ pc # "idle" => req \in PairBodies
    /\ pick(instant, "wind_gusts_10m_1h:ms") \in {NaN, N(10)}
    /\ pick(instant, "relative_humidity_2m:p") \in {NaN, N(50)}
    /\ allByParam = EmptyPool
    /\ (response.status = 200 /\ response.mode # "climatology") => response.hourly = <<>>

\* a step of the running request
Step == Next /\ PairInputs'

PairNext ==
    \/ Step
    \/ Switch

PairSpec == Init /\ [][PairNext]_vars

\* the alert engine applied on its own
EngineNext ==
    \/ CallComputeAlerts
    \/ CallBuildAlerts
    \/ CallDedup

\* the hourly sequence of the call is drawn first, its scalars by the call
EngineStart ==
    /\ HandlerInit
    /\ fn = "none"
    /\ opts \in { [hourly |-> hs] : hs \in EngineHourly }
    /\ alerts = <<>>
    /\ ret = <<>>

EngineSpec == EngineStart /\ [][EngineNext]_vars

(***************************************************************************)
(* The window scan on its own: windows and findConsecutiveWindows applied  *)
(* to an hourly sequence under one of the predicates the rules pass.       *)
(***************************************************************************)
\* the predicates handed to the scan: the UV and rain tests of the rules, and
\* the two constant predicates
ScanPreds == {"uvHigh", "uvInfo", "rainDanger", "rainWarn", "always", "never"}

ScanPred(name, h) ==
    CASE name = "uvHigh" -> UvHigh(h)
      [] name = "uvInfo" -> UvInfo(h)
      [] name = "rainDanger" -> RainDangerHour(h)
      [] name = "rainWarn" -> RainWarnHour(h)
      [] name = "always" -> TRUE
      [] name = "never" -> FALSE

\* windows(hourly, pred) and the labels join gives its windows
CallWindows ==
    /\ fn = "none"
    /\ pc = "idle"
    /\ \E name \in ScanPreds :
          LET ws == windows(opts.hourly, LAMBDA h : ScanPred(name, h))
          IN  /\ alerts' = <<name>>
              /\ ret' = [ws |-> ws, labels |-> Ranges(opts.hourly, ws)]
    /\ fn' = "windows"
    /\ UNCHANGED <<opts, handlerVars>>

\* findConsecutiveWindows(hourly, predicate) and the labels joinRange gives
CallFindConsecutiveWindows ==
    /\ fn = "none"
    /\ pc = "idle"
    /\ \E name \in ScanPreds :
          LET ws == findConsecutiveWindows(opts.hourly, LAMBDA h : ScanPred(name, h))
          IN  /\ alerts' = <<name>>
              /\ ret' = [ws |-> ws, labels |-> Ranges2(opts.hourly, ws)]
    /\ fn' = "findConsecutiveWindows"
    /\ UNCHANGED <<opts, handlerVars>>

ScanNext == CallWindows \/ CallFindConsecutiveWindows

ScanSpec == EngineStart /\ [][ScanNext]_vars

(***************************************************************************)
(* The 'as of' lookup of the first router on its own: valueAt applied to a *)
(* local-day series and a target instant drawn from bounded sets.          *)
(***************************************************************************)
\* a date string: the instant it denotes (t, in ticks) and how it is written,
\* with seconds ("...T01:00:00Z") or with milliseconds ("...T01:00:00.000Z")
DateStr(t, fmt) == [t |-> t, fmt |-> fmt]

\* Date.prototype.toISOString(): always written with milliseconds
toISOString(t) == DateStr(t, "ms")

\* new Date(text): the instant a date string denotes
DateOf(text) == text.t

SetMin(S) == CHOOSE x \in S : \A y \in S : x <= y

SetMax(S) == CHOOSE x \in S : \A y \in S : y <= x

\* a variant whose fallback takes only the points strictly before the instant
valueAtStrict(byParam, param, isoUTC) ==
    LET arr == IF param \in DOMAIN byParam THEN byParam[param] ELSE <<>>
        exact == { i \in DOMAIN arr : arr[i].date = isoUTC }
        prev == { i \in DOMAIN arr : DateOf(arr[i].date) < DateOf(isoUTC) }
    IN  IF exact # {} THEN arr[SetMin(exact)].value
        ELSE IF prev # {} THEN arr[SetMax(prev)].value
        ELSE NaN

\* valueAt(param, isoUTC): arr.find by equality of the date strings, else the
\* last element of arr.filter(date <= instant), else NaN
valueAt(byParam, param, isoUTC) ==
    LET arr == IF param \in DOMAIN byParam THEN byParam[param] ELSE <<>>
        exact == { i \in DOMAIN arr : arr[i].date = isoUTC }
        prev == { i \in DOMAIN arr : DateOf(arr[i].date) <= DateOf(isoUTC) }
    IN  IF exact # {} THEN arr[SetMin(exact)].value
        ELSE IF prev # {} THEN arr[SetMax(prev)].value
        ELSE NaN

\* the hours of the day window that carry points, and the values they carry
LookupHours == {1, 2, 3}

LookupValues == {N(10), N(20), N(30)}

\* every instant of the window in half hours, from before the first point to
\* after the last
LookupInstants == 0..(TicksPerHour * 3 + 1)

\* series in ascending order of time, of up to MaxPts points, every date of a
\* series written the same way
LookupSeries ==
    UNION { { [i \in 1..n |-> [date |-> DateStr(TicksPerHour * hrs[i], fmt), value |-> vals[i]]] :
                hrs \in { f \in [1..n -> LookupHours] : \A i \in 1..(n - 1) : f[i] <= f[i + 1] },
                vals \in [1..n -> LookupValues], fmt \in {"sec", "ms"} } :
            n \in 0..MaxPts }

\* byParam after the indexing loop: the reply carried a temperature series
LookupInit ==
    /\ HandlerInit
    /\ fn = "none"
    /\ opts \in { [byParam |-> [p \in {"t_2m:C"} |-> s], isoUTC |-> toISOString(t)] :
                    s \in LookupSeries, t \in LookupInstants }
    /\ alerts = <<>>
    /\ ret = <<>>

\* const tempNow = valueAt('t_2m:C', targetISO_utc), and the same for a
\* parameter the reply did not carry
CallValueAt ==
    /\ fn = "none"
    /\ pc = "idle"
    /\ \E param \in {"t_2m:C", "precip_1h:mm"} :
          /\ alerts' = <<param>>
          /\ ret' = valueAt(opts.byParam, param, opts.isoUTC)
    /\ fn' = "valueAt"
    /\ UNCHANGED <<opts, handlerVars>>

LookupNext == CallValueAt

LookupSpec == LookupInit /\ [][LookupNext]_vars

(***************************************************************************)
(* Properties of the handler (checked under Spec).                         *)
(***************************************************************************)
\* the target string parses and the zone name is known
WellFormed(body) ==
    body.targetISO.kind \notin {"garbage", "badOffset"} /\ ValidZone(body.timezone)

\* the request passed validation and the handler has run to its first await
Accepted == pc # "idle" /\ req.bodyOk /\ WellFormed(req)

Replied == pc = "done" /\ response.status = 200

\* the mode the horizon calls for: horizonDays against -0.5 and the forecast limit
ExpectedMode ==
    IF 2 * horizonTicks < 0 - TicksPerDay THEN "history"
    ELSE IF horizonTicks <= MAX_FORECAST_DAYS * TicksPerDay THEN "forecast"
    ELSE "climatology"

InstantQueries == { i \in DOMAIN queries : queries[i].kind = "instant" }

\* the per-year queries of buildClimatology: hourly ranges over the five pooled parameters
ClimQueries == { i \in DOMAIN queries : queries[i].kind = "range" /\ queries[i].params = CLIM_PARAMS }

\* the local-day query: an hourly range over the four series parameters
DayQueries == { i \in DOMAIN queries : queries[i].kind = "range" /\ queries[i].params = SERIES_PARAMS }

HasParam(q, p) == \E k \in DOMAIN q.params : q.params[k] = p

\* C1: the reported mode is history below -0.5 days, forecast up to the forecast
\* limit and climatology beyond it; the climatology builder's queries are issued
\* exactly for climatology requests, the live queries exactly for the others.
C1_ModeByHorizon ==
    Accepted =>
        /\ (Replied => response.mode = ExpectedMode)
        /\ (ClimQueries # {}) <=> (ExpectedMode = "climatology")
        /\ (InstantQueries # {}) <=> (ExpectedMode # "climatology")
        /\ (DayQueries # {}) => (ExpectedMode # "climatology")

\* a forecast reply for a target exactly half a day in the past
C1_Witness ==
    Replied /\ 2 * horizonTicks = 0 - TicksPerDay /\ response.mode = "forecast"

\* C2: in forecast/history mode the first instant query asks for air quality
\* exactly when horizonDays <= 5; beyond that no instant query of the request does.
C2_AirQualityByHorizon ==
    (Accepted /\ ExpectedMode # "climatology") =>
        /\ queries[1].kind = "instant"
        /\ HasParam(queries[1], AQ_PARAM) <=> (horizonTicks <= 5 * TicksPerDay)
        /\ (horizonTicks > 5 * TicksPerDay) =>
               \A i \in InstantQueries : ~HasParam(queries[i], AQ_PARAM)

\* a forecast reply for a target exactly five days ahead, air quality requested
C2_Witness ==
    Replied /\ horizonTicks = 5 * TicksPerDay /\ HasParam(queries[1], AQ_PARAM)

\* the first instant query has settled with the retry signature
FirstFailedRetryable ==
    /\ Accepted /\ ExpectedMode # "climatology"
    /\ Len(outcomes) >= 1
    /\ outcomes[1] \in RETRY_MESSAGES

\* what the retry must look like: the second query, instant, for the same
\* instant, with the first list less the air-quality parameter
IsReducedRetry ==
    /\ Len(queries) >= 2
    /\ queries[2].kind = "instant"
    /\ queries[2].validISO = queries[1].validISO
    /\ ~HasParam(queries[2], AQ_PARAM)
    /\ Len(queries[2].params) = Len(queries[1].params) - 1
    /\ \A k \in DOMAIN queries[1].params :
          queries[1].params[k] # AQ_PARAM => HasParam(queries[2], queries[1].params[k])

\* C3 as stated: every first-query failure with the signature is followed by
\* exactly one reduced retry.
C3_Original ==
    FirstFailedRetryable =>
        /\ IsReducedRetry
        /\ Cardinality(InstantQueries) = 2

\* C3 as amended: a first instant query that asked for air quality and failed
\* with the signature is retried exactly once, without the air-quality parameter;
\* one that did not ask for air quality fails the request with no retry; a
\* failed retry fails the request; there are never more than two instant queries.
C3_RetryOnce ==
    /\ Cardinality(InstantQueries) <= 2
    /\ (FirstFailedRetryable /\ HasParam(queries[1], AQ_PARAM)) =>
           /\ IsReducedRetry
           /\ Cardinality(InstantQueries) = 2
           /\ (Len(outcomes) >= 2 /\ outcomes[2] # "ok") =>
                  /\ pc = "failed"
                  /\ err.message = outcomes[2]
                  /\ Len(queries) = 2
    /\ (FirstFailedRetryable /\ ~HasParam(queries[1], AQ_PARAM)) =>
           /\ pc = "failed"
           /\ err.message = outcomes[1]
           /\ Len(queries) = 1

\* the retry went out after a signature failure and was answered
C3_Witness ==
    /\ FirstFailedRetryable
    /\ HasParam(queries[1], AQ_PARAM)
    /\ Len(outcomes) >= 2
    /\ outcomes[2] = "ok"
    /\ pc = "hourly"

\* C4: in forecast/history mode a first instant failure without the retry
\* signature, or a failure of the local-day query, ends the request: the error
\* reaches the error handler, no success payload is sent, no query follows.
C4_FatalFetchErrors ==
    (Accepted /\ ExpectedMode # "climatology") =>
        /\ (Len(outcomes) >= 1 /\ outcomes[1] # "ok" /\ outcomes[1] \notin RETRY_MESSAGES) =>
               /\ pc = "failed"
               /\ err.message = outcomes[1]
               /\ response.status \notin {0, 200}
               /\ Len(queries) = 1
        /\ \A i \in DayQueries :
               (Len(outcomes) >= i /\ outcomes[i] # "ok") =>
                   /\ pc = "failed"
                   /\ err.message = outcomes[i]
                   /\ response.status \notin {0, 200}
                   /\ Len(queries) = i

\* the local-day query failed after a successful instant query
C4_Witness ==
    /\ pc = "failed"
    /\ Len(queries) = 2
    /\ 2 \in DayQueries
    /\ Len(outcomes) = 2
    /\ outcomes[2] # "ok"

\* C5: a climatology request issues only the per-year range queries; its reply
\* carries the alert engine's output for the climatology panel and hourly
\* sequence, computed without an air-quality index, so no air-quality alert.
C5_ClimatologySkipsLive ==
    (Accepted /\ ExpectedMode = "climatology") =>
        /\ InstantQueries = {}
        /\ DayQueries = {}
        /\ \A i \in DOMAIN queries : i \in ClimQueries
        /\ Replied =>
               /\ response.alerts =
                      computeAlerts([hiC |-> response.panel.hiC,
                                     loC |-> response.panel.loC,
                                     uv |-> response.panel.uv_index,
                                     gust_kmh |-> response.panel.wind.gust_kmh,
                                     hourly |-> response.hourly,
                                     aqi_pm25_idx |-> NaN])
               /\ OfRule(response.alerts, "aq") = <<>>

\* a climatology reply that carries alerts
C5_Witness ==
    Replied /\ response.mode = "climatology" /\ Len(response.alerts) >= 2

\* C6: a climatology reply reports the air-quality overall index as missing.
C6_ClimatologyIndexMissing ==
    (Replied /\ response.mode = "climatology") => ~IsFinite(response.airQuality.overall_idx)

\* C7: a climatology reply in which no threshold rule fired carries exactly the
\* one informational entry, so its alert list is never empty.
C7_ClimatologyNeverSilent ==
    (Replied /\ response.mode = "climatology") =>
        /\ Len(response.alerts) > 0
        /\ (\A k \in DOMAIN response.alerts : RuleOf(response.alerts[k]) = "none") =>
               /\ Len(response.alerts) = 1
               /\ response.alerts[1].level = "info"

(***************************************************************************)
(* Properties of the alert engine (checked under EngineSpec).              *)
(***************************************************************************)
\* the maximal runs of consecutive hours of opts.hourly that satisfy P
MaximalRuns(hs, P(_)) ==
    { <<a, b>> \in (DOMAIN hs) \X (DOMAIN hs) :
        /\ a <= b
        /\ \A i \in a..b : P(hs[i])
        /\ (a = 1 \/ ~P(hs[a - 1]))
        /\ (b = Len(hs) \/ ~P(hs[b + 1])) }

\* arg lists each run of runs once, in order of time, by its labels
ListsRuns(arg, hs, runs) ==
    /\ Len(arg) = Cardinality(runs)
    /\ \A r \in runs :
          LET k == Cardinality({ q \in runs : q[1] <= r[1] })
              s == hs[r[1]].timeLocal
              e == hs[r[2]].timeLocal
          IN  arg[k] = IF s = e THEN <<s>> ELSE <<s, e>>

HotUv(h) == h.uv_idx # NaN /\ h.uv_idx >= 8 * Scale

EngineCalled == fn \in {"computeAlerts", "buildAlerts"}

TwoTier(r, dangerCond, warnCond) ==
    LET as == OfRule(ret, r)
    IN  IF dangerCond THEN Len(as) = 1 /\ as[1].level = "danger"
        ELSE IF warnCond THEN Len(as) = 1 /\ as[1].level = "warning"
        ELSE Len(as) = 0

AnyHour(P(_)) == \E i \in DOMAIN opts.hourly : P(opts.hourly[i])

HeavyRain(h) == Ge(h.probPrecip1h_pct, 80 * Scale) \/ Ge(h.precip1h_mm, 7 * Scale)

LikelyRain(h) == Ge(h.probPrecip1h_pct, 60 * Scale) \/ Ge(h.precip1h_mm, 3 * Scale)

\* C9: each two-tier rule of computeAlerts (heat, cold, rain, gust, air quality)
\* emits at most one alert, at the higher tier when both conditions hold; the
\* rain alert of the danger tier lists the heavy-rain runs only.
C9_TwoTierRules ==
    (fn = "computeAlerts") =>
        /\ TwoTier("heat", Ge(opts.hiC, 40 * Scale), Ge(opts.hiC, 35 * Scale))
        /\ TwoTier("cold", Le(opts.loC, (0 - 5) * Scale), Le(opts.loC, 5 * Scale))
        /\ TwoTier("rain", AnyHour(HeavyRain), AnyHour(LikelyRain))
        /\ TwoTier("gust", Ge(opts.gust_kmh, 80 * Scale), Ge(opts.gust_kmh, 60 * Scale))
        /\ TwoTier("aq", Ge(opts.aqi_pm25_idx, 4 * Scale), Ge(opts.aqi_pm25_idx, 3 * Scale))
        /\ AnyHour(HeavyRain) =>
               ListsRuns(OfRule(ret, "rain")[1].text[2], opts.hourly,
                         MaximalRuns(opts.hourly, HeavyRain))

\* a daily high of 41 together with an hour of heavy rain and one of likely rain
C9_Witness ==
    /\ fn = "computeAlerts"
    /\ opts.hiC = 41 * Scale
    /\ AnyHour(HeavyRain)
    /\ AnyHour(LAMBDA h : LikelyRain(h) /\ ~HeavyRain(h))
    /\ Len(OfRule(ret, "heat")) = 1

\* the indices of as whose (level, text) pair did not occur before them
FirstSeen(as) ==
    { i \in DOMAIN as : \A j \in 1..(i - 1) : <<as[j].level, as[j].text>> # <<as[i].level, as[i].text>> }

\* C10: the returned sequence never repeats a (severity, text) pair; it is the
\* candidate sequence restricted to the first occurrence of each pair, in order.
C10_DedupFirstSeen ==
    (fn # "none") =>
        /\ \A i, j \in DOMAIN ret :
              (ret[i].level = ret[j].level /\ ret[i].text = ret[j].text) => i = j
        /\ Len(ret) = Cardinality(FirstSeen(alerts))
        /\ \A i \in FirstSeen(alerts) :
              ret[Cardinality({ j \in FirstSeen(alerts) : j <= i })] = alerts[i]

\* a candidate list that repeats a pair, returned shorter but not emptied
C10_Witness ==
    /\ fn = "dedup"
    /\ Len(alerts) = 3
    /\ Len(ret) = 2

\* the place of an alert's rule category in the evaluation order
CategoryRank(a) ==
    CASE RuleOf(a) = "uv" -> 1
      [] RuleOf(a) \in {"heat", "cold"} -> 2
      [] RuleOf(a) = "rain" -> 3
      [] RuleOf(a) = "gust" -> 4
      [] RuleOf(a) = "humidex" -> 5
      [] RuleOf(a) = "aq" -> 6
      [] OTHER -> 7

\* C11: the alerts returned by computeAlerts and by buildAlerts come in the
\* order of their rule categories: UV, heat/cold, rain, gust, heat stress, air
\* quality.
C11_CategoryOrder ==
    EngineCalled =>
        \A i, j \in DOMAIN ret : i < j => CategoryRank(ret[i]) <= CategoryRank(ret[j])

\* computeAlerts returning an alert of every one of its rules
C11_Witness ==
    /\ fn = "computeAlerts"
    /\ Len(ret) = 6
    /\ RuleOf(ret[1]) = "uv"
    /\ RuleOf(ret[6]) = "aq"

LiveReplied == Replied /\ response.mode \in {"forecast", "history"}

\* C12: in a forecast/history reply an air-quality alert is present whenever
\* the reported overall index is finite and >= 3 (danger at >= 4), and absent
\* whenever the index is missing.
C12_AirQualityAlertFollowsIndex ==
    LiveReplied =>
        LET idx == response.airQuality.overall_idx
            aqs == OfRule(response.alerts, "aq")
        IN  /\ Ge(idx, 4 * Scale) => (Len(aqs) = 1 /\ aqs[1].level = "danger")
            /\ (Ge(idx, 3 * Scale) /\ Lt(idx, 4 * Scale)) => (Len(aqs) = 1 /\ aqs[1].level = "warning")
            /\ ~IsFinite(idx) => Len(aqs) = 0

\* C13: once every provider query of a request has been answered, alert
\* computation and panel assembly complete with a success payload: the request
\* never fails after a reply that arrived.
C13_AssemblyNeverThrows ==
    (Accepted /\ Len(outcomes) > 0 /\ outcomes[Len(outcomes)] = "ok") => pc # "failed"

\* C14: a request whose target string does not parse or whose zone name is
\* unknown is answered 400, and no provider query is issued for it.
C14_MalformedIsBadRequest ==
    (pc # "idle" /\ req.bodyOk /\ ~WellFormed(req)) =>
        /\ queries = <<>>
        /\ pc \in {"done", "failed"}
        /\ response.status = 400

\* the finite temperatures of the reply's hourly sequence
HourlyTemps == { response.hourly[k].tempC : k \in { i \in DOMAIN response.hourly : IsFinite(response.hourly[i].tempC) } }

\* C15: in every reply the panel's high is at least its low whenever both are
\* finite; for forecast/history they are the greatest and the least of the
\* hourly temperatures, for climatology they lie within the per-hour medians;
\* both are missing when there is no temperature at all.
C15_HighNotBelowLow ==
    (Replied /\ response.mode \in {"forecast", "history", "climatology"}) =>
        LET hi == response.panel.hiC
            lo == response.panel.loC
        IN  /\ (IsFinite(hi) /\ IsFinite(lo)) => hi >= lo
            /\ IsFinite(hi) <=> IsFinite(lo)
            /\ HourlyTemps = {} <=> ~IsFinite(hi)
            /\ HourlyTemps # {} =>
                  /\ response.mode # "climatology" =>
                        /\ \A t \in HourlyTemps : lo <= t /\ t <= hi
                        /\ hi \in HourlyTemps /\ lo \in HourlyTemps
                  /\ response.mode = "climatology" =>
                        \E a, b \in HourlyTemps : a <= lo /\ hi <= b

\* a climatology reply whose high lies strictly above its low
C15_Witness ==
    /\ Replied
    /\ response.mode = "climatology"
    /\ IsFinite(response.panel.hiC)
    /\ response.panel.hiC > response.panel.loC

FlagNames == {"veryHot", "veryCold", "veryWet", "veryHumid", "extremeRain", "dangerousUV"}

\* C16: every probability flag of the panel lies in [0, 1] (0 to 100 hundredths).
C16_FlagsAreProbabilities ==
    (Replied /\ response.mode \in {"forecast", "history", "climatology"}) =>
        \A f \in FlagNames : response.panel.veryFlag[f] >= 0 /\ response.panel.veryFlag[f] <= 100

\* C17: for a target string with an explicit offset the resolved instant is the
\* instant the string names, whatever the timezone parameter: the same request
\* with any other zone name resolves to the same instant and the same horizon.
C17_OffsetTargetIgnoresZone ==
    (pc # "idle" /\ req.bodyOk /\ req.targetISO.kind = "offset") =>
        /\ targetUTC = req.targetISO.t
        /\ horizonTicks = req.targetISO.t - now
        /\ \A tz \in Zones \cup {UNKNOWN_TZ} :
              ResolveTarget([req EXCEPT !.timezone = tz], now) = targetUTC
        /\ \A i \in InstantQueries : queries[i].validISO = req.targetISO.t

\* an offset-carrying target in a zone seven hours from UTC, queried
C17_Witness ==
    /\ pc = "instant1"
    /\ req.targetISO.kind = "offset"
    /\ req.timezone = DEFAULT_TZ
    /\ TzOffset(req.timezone) # 0
    /\ queries[1].validISO = req.targetISO.t

\* milliseconds in a tick of the clock (half an hour)
MsPerTick == 30 * 60 * 1000

RunsAsAlone(st) ==
    st.pc # "idle" =>
        LET tgt == ResolveTarget(st.req, now)
            h == tgt - now
            tz == st.req.timezone
            params == IF h <= 5 * TicksPerDay
                      THEN Append(INSTANT_PARAMS_BASE, AQ_PARAM) ELSE INSTANT_PARAMS_BASE
            clim == h > MAX_FORECAST_DAYS * TicksPerDay
            retried == ~clim /\ Len(st.outcomes) >= 1 /\ st.outcomes[1] \in RETRY_MESSAGES
                       /\ h <= 5 * TicksPerDay
            nInstant == IF retried THEN 2 ELSE 1
        IN  /\ st.targetUTC = tgt
            /\ st.horizonTicks = h
            /\ st.instantParams = params
            /\ Len(st.queries) - Len(st.outcomes) \in {0, 1}
            /\ \A k \in DOMAIN st.queries :
                  st.queries[k] =
                      IF clim THEN ClimQuery(tgt, k)
                      ELSE IF k = 1 THEN InstantQuery(tgt, params)
                      ELSE IF k = 2 /\ retried THEN InstantQuery(tgt, INSTANT_PARAMS_BASE)
                      ELSE HourlyQuery(tgt, tz)
            /\ Len(st.queries) <= (IF clim THEN yearsBack ELSE nInstant + 1)
            /\ IF clim \/ Len(st.queries) <= nInstant THEN st.instant = NoInstant
               ELSE st.instant \in InstantReplies(st.queries[nInstant])
            /\ st.pc = "done" =>
                  IF clim THEN st.response = ClimResponse(st.allByParam, tgt, tz)
                  ELSE \E data \in HourlyReplies(HourlyQuery(tgt, tz)) :
                          st.response = ForecastResponse(st.instant, data, tgt, tz, h)
            /\ st.pc = "failed" =>
                  /\ st.response = ErrorResponse(st.err)
                  /\ st.err = PushTypeError \/ st.err.message = st.outcomes[Len(st.outcomes)]

\* C19: two requests interleaved at their awaits do not affect each other: each
\* issues the queries and sends the response it would alone with the same
\* replies, and the module-level state stays as it was loaded.
C19_RequestsIndependent ==
    /\ moduleParams = INSTANT_PARAMS_BASE
    /\ RunsAsAlone(Locals)
    /\ RunsAsAlone(parked)

\* both requests suspended on their local-day query at once, one that asked for
\* air quality and one that did not
C19_Witness ==
    /\ pc = "hourly"
    /\ parked.pc = "hourly"
    /\ ~HasParam(queries[1], AQ_PARAM)
    /\ HasParam(parked.queries[1], AQ_PARAM)
    /\ Len(parked.queries) = 2

(***************************************************************************)
(* Further properties of the handler (checked under Spec).                 *)
(***************************************************************************)
\* C20: the instant query is issued a second time only once the first has
\* settled with a failure carrying the retry signature: never while the first is
\* pending, after it succeeded, or after it failed otherwise.
C20_RetryOnlyAfterSignature ==
    /\ pc = "instant1" => (Len(queries) = 1 /\ outcomes = <<>>)
    /\ \A i \in InstantQueries :
          i > 1 =>
              /\ i = 2
              /\ Len(outcomes) >= 1
              /\ outcomes[1] \in RETRY_MESSAGES
              /\ HasParam(queries[1], AQ_PARAM)
              /\ ~HasParam(queries[2], AQ_PARAM)

\* the retry in flight, the first query having failed with the signature
C20_Witness ==
    /\ pc = "instant2"
    /\ Len(queries) = 2
    /\ outcomes = <<"Meteomatics 400: Mix request failed">>

InClimatology == Accepted /\ ExpectedMode = "climatology"

IsPrefix(a, b) == Len(a) <= Len(b) /\ \A k \in DOMAIN a : a[k] = b[k]

\* while the builder is fetching nothing has been bucketed or sent; a reply is
\* sent only after yearsBack fetches, all answered, and is computed from the
\* pool as it stands then; a failed fetch ends the build with the error
ClimBarrier ==
    InClimatology =>
        /\ Len(queries) <= yearsBack
        /\ pc = "clim" =>
              /\ response = NoResponse
              /\ Len(queries) = Len(outcomes) + 1
              /\ \A k \in DOMAIN outcomes : outcomes[k] = "ok"
        /\ Replied =>
              /\ Len(queries) = yearsBack
              /\ Len(outcomes) = yearsBack
              /\ \A k \in DOMAIN outcomes : outcomes[k] = "ok"
              /\ response.hourly = ClimHourly(allByParam, targetUTC, req.timezone)
              /\ response.panel = ClimPanel(allByParam, targetUTC, response.hourly)
        /\ (Len(outcomes) > 0 /\ outcomes[Len(outcomes)] # "ok") =>
              /\ pc = "failed"
              /\ response = ErrorResponse(err)
              /\ err.message = outcomes[Len(outcomes)]
              /\ Len(queries) = Len(outcomes)

\* the pool only grows: the points of the earlier years stay in it
PoolGrows ==
    (pc = "clim" /\ pc' \in {"clim", "done"}) =>
        \A p \in DOMAIN allByParam : IsPrefix(allByParam[p], allByParam'[p])

\* C21: bucketing starts only after all yearsBack per-year fetches have
\* completed, on a pool that holds the points of every year; a failed fetch
\* aborts the build before any bucket is computed.
C21_FetchBarrier == []ClimBarrier /\ [][PoolGrows]_vars

\* a climatology reply built from a pool that holds points of several years
C21_Witness ==
    /\ Replied
    /\ response.mode = "climatology"
    /\ Len(queries) = yearsBack
    /\ Len(allByParam["t_2m:C"]) >= 2 * yearsBack

(***************************************************************************)
(* Properties of the window scan (checked under ScanSpec).                 *)
(***************************************************************************)
\* ws are exactly the maximal runs of hs under P: ascending, disjoint and
\* non-adjacent, a <= b, covering the hours that satisfy P and no other
ExactRuns(hs, ws, P(_)) ==
    /\ \A k \in DOMAIN ws : 1 <= ws[k].a /\ ws[k].a <= ws[k].b /\ ws[k].b <= Len(hs)
    /\ \A k \in 1..(Len(ws) - 1) : ws[k].b + 1 < ws[k + 1].a
    /\ \A i \in DOMAIN hs : P(hs[i]) <=> (\E k \in DOMAIN ws : ws[k].a <= i /\ i <= ws[k].b)
    /\ \A i \in DOMAIN hs :
          Cardinality({ k \in DOMAIN ws : ws[k].a <= i /\ i <= ws[k].b }) <= 1
    /\ { <<ws[k].a, ws[k].b>> : k \in DOMAIN ws } = MaximalRuns(hs, P)
    /\ (Len(hs) > 0 /\ P(hs[Len(hs)])) => (Len(ws) > 0 /\ ws[Len(ws)].b = Len(hs))

\* the windows the scan returned, as (a, b) whichever function was called
Scanned ==
    IF fn = "windows" THEN ret.ws
    ELSE [k \in DOMAIN ret.ws |-> [a |-> ret.ws[k].startIdx, b |-> ret.ws[k].endIdx]]

\* C22: for every hourly sequence and every predicate the window scan returns
\* exactly the maximal runs of consecutive hours satisfying the predicate, in
\* ascending order; a run reaching the last hour is closed there, and a
\* one-hour run renders as a single label.
C22_WindowsAreMaximalRuns ==
    fn \in {"windows", "findConsecutiveWindows"} =>
        /\ ExactRuns(opts.hourly, Scanned, LAMBDA h : ScanPred(alerts[1], h))
        /\ Len(ret.labels) = Len(Scanned)
        /\ \A k \in DOMAIN Scanned :
              Scanned[k].a = Scanned[k].b =>
                  ret.labels[k] = <<opts.hourly[Scanned[k].a].timeLocal>>

\* the scan has returned two separate runs of high UV, the second a one-hour
\* run at the last hour
C22_Witness ==
    /\ fn = "windows"
    /\ alerts = <<"uvHigh">>
    /\ Len(opts.hourly) = 3
    /\ ret.ws = << [a |-> 1, b |-> 1], [a |-> 3, b |-> 3] >>
    /\ Len(ret.labels[2]) = 1

(***************************************************************************)
(* Properties of the 'as of' lookup (checked under LookupSpec).            *)
(***************************************************************************)
\* the series the lookup was applied to (none when the parameter is absent)
LookedUp == IF alerts[1] \in DOMAIN opts.byParam THEN opts.byParam[alerts[1]] ELSE <<>>

AtOrBefore == { i \in DOMAIN LookedUp : LookedUp[i].date.t <= opts.isoUTC.t }

\* C23: valueAt over a series in ascending order of time returns the value of
\* a point at the instant if there is one, else of the latest point before
\* it, else NaN (also when the series is absent); never a later point.
C23_AsOfLookup ==
    fn = "valueAt" =>
        IF AtOrBefore = {} THEN ret = NaN
        ELSE \E i \in AtOrBefore :
                /\ ret = LookedUp[i].value
                /\ \A j \in AtOrBefore : LookedUp[j].date.t <= LookedUp[i].date.t

\* a query at 2.5 h over points at hours 1, 2, 3 has returned the hour-2 value
C23_Witness ==
    /\ fn = "valueAt"
    /\ Len(LookedUp) = 3
    /\ \A i \in 1..3 : LookedUp[i].date.t = TicksPerHour * i
    /\ LookedUp[2].value # LookedUp[3].value /\ LookedUp[2].value # LookedUp[1].value
    /\ opts.isoUTC.t = TicksPerHour * 2 + 1
    /\ ret = LookedUp[2].value

(***************************************************************************)
(* Properties of the forecast / history panel and hourly sequence (Spec).  *)
(***************************************************************************)
\* the replies to the local-day query from which the handler computes the
\* hourly sequence and the panel it has sent
RepliesSeen ==
    { data \in HourlyReplies(queries[Len(queries)]) :
        /\ response.hourly = ForecastHourly(data, req.timezone)
        /\ response.panel = ForecastPanel(instant, data, targetUTC, response.hourly) }

\* v is the value of the earliest point of arr at least distance from tgt, or
\* missing when arr has no point
IsClosest(arr, tgt, v) ==
    IF arr = <<>> THEN v = NaN
    ELSE \E i \in DOMAIN arr :
            /\ v = arr[i].value
            /\ \A j \in DOMAIN arr :
                  \/ Abs(arr[i].date - tgt) < Abs(arr[j].date - tgt)
                  \/ (Abs(arr[i].date - tgt) = Abs(arr[j].date - tgt) /\ arr[i].date <= arr[j].date)

\* C24: panel temperature, last-hour precipitation and UV are the value of the
\* point closest in time to the target, the earlier one of two equally close,
\* and are reported as missing when the series is empty.
C24_ClosestReading ==
    LiveReplied =>
        /\ RepliesSeen # {}
        /\ \A data \in RepliesSeen :
              /\ IsClosest(SeriesOf(data, "t_2m:C"), targetUTC, response.panel.tempNowC)
              /\ IsClosest(SeriesOf(data, "precip_1h:mm"), targetUTC, response.panel.precipLast1h_mm)
              /\ IsClosest(SeriesOf(data, "uv:idx"), targetUTC, response.panel.uv_index)

\* the share, in hundredths, of the points of one series that satisfy P; 0 for
\* a series without points
ShareOf(arr, P(_)) ==
    IF Len(arr) = 0 THEN 0
    ELSE (200 * Cardinality({ i \in DOMAIN arr : P(arr[i].value) }) + Len(arr)) \div (2 * Len(arr))

\* C25: each percentage flag is the number of points of the named parameter's
\* series that satisfy the predicate divided by the number of points of that
\* same series, and 0 when that series is empty.
C25_FlagsOverOwnSeries ==
    LiveReplied =>
        /\ RepliesSeen # {}
        /\ \A data \in RepliesSeen :
              LET flags == response.panel.veryFlag
                  rainShare == ShareOf(SeriesOf(data, "precip_1h:mm"), LAMBDA x : Ge(x, N(7)))
                  probShare == ShareOf(SeriesOf(data, "prob_precip_1h:p"), LAMBDA x : Ge(x, N(60)))
              IN  /\ flags.extremeRain = rainShare
                  /\ flags.dangerousUV = ShareOf(SeriesOf(data, "uv:idx"), LAMBDA x : Ge(x, N(8)))
                  /\ flags.veryHot = ShareOf(SeriesOf(data, "t_2m:C"), LAMBDA x : Ge(x, N(35)))
                  /\ flags.veryCold = ShareOf(SeriesOf(data, "t_2m:C"), LAMBDA x : Le(x, N(5)))
                  /\ flags.veryWet = IF rainShare >= probShare THEN rainShare ELSE probShare

(***************************************************************************)
(* Properties of buildClimatology's result (checked under Spec).           *)
(***************************************************************************)
ClimReplied == Replied /\ response.mode = "climatology"

HourlyFields == {"timeLocal", "tempC", "probPrecip1h_pct", "precip1h_mm", "uv_idx"}

PanelFields ==
    {"tempNowC", "hiC", "loC", "precipLast1h_mm", "precipLast24h_mm", "humidity_pct",
     "uv_index", "uv_level", "wind", "veryFlag"}

\* no value of the bucket of hour h is finite (it is empty or all non-finite)
NoFinite(points, h) == \A i \in DOMAIN points : UTCHours(points[i].date) = h => ~IsFinite(points[i].value)

\* C26: whenever the fetches of a climatology build have all been answered and
\* pooled, the builder returns a panel and an hourly sequence of exactly 24
\* entries, entry k for the bucket of hour k - 1, whatever the pool holds.
C26_ClimatologyComplete ==
    (InClimatology /\ pc = "done") =>
        /\ ClimReplied
        /\ Len(response.hourly) = HoursPerDay
        /\ DOMAIN response.panel = PanelFields
        /\ \A k \in 1..HoursPerDay :
              /\ k \in DOMAIN response.hourly
              /\ DOMAIN response.hourly[k] = HourlyFields
              /\ response.hourly[k].tempC = median(Bucket(allByParam["t_2m:C"], k - 1))
              /\ NoFinite(allByParam["t_2m:C"], k - 1) <=> ~IsFinite(response.hourly[k].tempC)

\* a climatology reply built from a pool without any UV point whose only
\* temperature points are not numbers
C26_Witness ==
    /\ ClimReplied
    /\ allByParam["uv:idx"] = <<>>
    /\ Len(allByParam["t_2m:C"]) = yearsBack
    /\ \A i \in DOMAIN allByParam["t_2m:C"] : ~IsFinite(allByParam["t_2m:C"][i].value)
    /\ Len(response.hourly) = HoursPerDay

\* the entry of the hourly sequence that the panel reads
PanelSlot == (IF UTCHours(targetUTC) < 23 THEN UTCHours(targetUTC) ELSE 23) + 1

\* C27: an hour-of-day bucket that is empty or holds only non-finite values
\* yields a missing (non-finite) temperature, precipitation amount and UV in
\* the hourly entry and in the panel.
C27_EmptyBucketIsMissing ==
    ClimReplied =>
        /\ \A k \in DOMAIN response.hourly :
              /\ NoFinite(allByParam["t_2m:C"], k - 1) => ~IsFinite(response.hourly[k].tempC)
              /\ NoFinite(allByParam["precip_1h:mm"], k - 1) => ~IsFinite(response.hourly[k].precip1h_mm)
              /\ NoFinite(allByParam["uv:idx"], k - 1) => ~IsFinite(response.hourly[k].uv_idx)
        /\ NoFinite(allByParam["t_2m:C"], PanelSlot - 1) => ~IsFinite(response.panel.tempNowC)
        /\ NoFinite(allByParam["precip_1h:mm"], PanelSlot - 1) => ~IsFinite(response.panel.precipLast1h_mm)
        /\ NoFinite(allByParam["uv:idx"], PanelSlot - 1) => ~IsFinite(response.panel.uv_index)

\* the lists of time ranges carried by the window alerts of the reply
WindowRanges ==
    { response.alerts[k].text[2] :
        k \in { i \in DOMAIN response.alerts : RuleOf(response.alerts[i]) \in {"uv", "rain"} } }

\* C28: in both modes the hourly sequence of a reply is in chronological
\* local-day order, its labels ascending from the first to the last hour of
\* one local day, so every alert window starts no later than it ends.
C28_HourlyInLocalOrder ==
    (Replied /\ response.mode \in {"forecast", "history", "climatology"}) =>
        /\ \A k \in 1..(Len(response.hourly) - 1) :
              response.hourly[k].timeLocal < response.hourly[k + 1].timeLocal
        /\ \A rs \in WindowRanges : \A k \in DOMAIN rs : rs[k][1] <= rs[k][Len(rs[k])]

(***************************************************************************)
(* Properties of buildAlerts (checked under EngineSpec).                   *)
(***************************************************************************)
\* C29: buildAlerts emits a heat-stress (humidex) alert only when the panel
\* temperature and the panel humidity are both finite; with either missing
\* there is none, whatever the other value is.
C29_HumidexNeedsBothInputs ==
    fn = "buildAlerts" =>
        (Len(OfRule(ret, "humidex")) > 0 =>
            (IsFinite(opts.tempNowC) /\ IsFinite(opts.humidity_pct)))

\* v is what the series arr holds at the instant d: the value of its point
\* dated d, or the default when it has no point at d
ValueAtInstant(arr, d, dflt, v) ==
    IF \E j \in DOMAIN arr : arr[j].date = d
    THEN \E j \in DOMAIN arr : arr[j].date = d /\ arr[j].value = v
    ELSE v = dflt

\* C30: every entry of the forecast/history hourly sequence combines values of
\* one instant: its precipitation probability, precipitation amount and UV
\* come from the points dated as the temperature point that labels the entry,
\* for every reply, series of different lengths or start times included.
C30_EntriesOfOneInstant ==
    LiveReplied =>
        /\ RepliesSeen # {}
        /\ \A data \in RepliesSeen :
              LET t == SeriesOf(data, "t_2m:C")
              IN  /\ Len(response.hourly) = Len(t)
                  /\ \A i \in DOMAIN t :
                        /\ response.hourly[i].timeLocal = TimeLabel(t[i].date, req.timezone)
                        /\ response.hourly[i].tempC = t[i].value
                        /\ ValueAtInstant(SeriesOf(data, "precip_1h:mm"), t[i].date, N(0),
                                          response.hourly[i].precip1h_mm)
                        /\ ValueAtInstant(SeriesOf(data, "uv:idx"), t[i].date, N(0),
                                          response.hourly[i].uv_idx)
                        /\ \E pv \in {N(0)} \cup { SeriesOf(data, "prob_precip_1h:p")[j].value :
                                           j \in DOMAIN SeriesOf(data, "prob_precip_1h:p") } :
                              /\ ValueAtInstant(SeriesOf(data, "prob_precip_1h:p"), t[i].date, N(0), pv)
                              /\ response.hourly[i].probPrecip1h_pct = RoundNum(pv)

====
